---- MODULE Spec2Model ----
(***************************************************************************)
(* The X/Y/Z plot script of scripts/xyz_grid.py: Script.run, its nested    *)
(* cell() function, draw_xyz_grid with its nested process_cell(), and      *)
(* SharedSettingsStackHelper.  One run of the script is one behaviour: the *)
(* arguments of run are drawn in Init, the renderer (process_images) and   *)
(* the interruption flags of shared.state are the environment.             *)
(*                                                                         *)
(* Python indices are kept 0-based (ix, iy, iz, list positions); a Python  *)
(* list l is the sequence with l[k] at position k + 1.                     *)
(***************************************************************************)
EXTENDS Integers, Sequences, FiniteSets, TLC

(* ---------------- bounds of the model ---------------- *)

\* longest value list of an axis
MaxAxisLen == 2
\* the value list of the one long axis
LongAxisLen == 4
\* largest "Items per grid" setting
MaxItemsPerGrid == 2
\* largest end of a range "a-b", largest step and largest count of a range
MaxRangeEnd == 5
MaxStep == 2
MaxCount == 3
\* most values of a permutation axis
MaxPermLen == 3
\* longest axis that is cut into chunks, and the largest size of its chunks
MaxChunkedLen == 10
MaxChunkSize == 4
\* renderer failures per run
MaxFailures == 1
\* changes of the interruption flags per run
MaxFlagEvents == 2
\* renderer failures of a run in which any cell may fail
MaxCellFailures == 6
\* the seed of the template request after fix_seed
BaseSeed == 100
\* random.randrange(RandRange) draws from 0..(RandRange - 1).  The source has
\* 4294967294, which is beyond the integers of TLC; the model keeps the shape
\* of the range and a smaller end.
RandRange == 1000000
\* draws of random.randrange that a run can tell apart
MaxDraws == 2
\* The values of a float axis are counted in halves, which floating point
\* holds exactly: 3 is 1.5, and FloatOne is the 1 that line 1176 takes for a
\* step that is not written.
FloatOne == 2
\* largest end, in halves, of a range on a float axis
MaxFloatEnd == 5
\* most images the renderer returns for one request
MaxBatch == 2

(* ---------------- values ---------------- *)

None == [kind |-> "None"]

Min(a, b) == IF a < b THEN a ELSE b
Max(a, b) == IF a > b THEN a ELSE b

\* l[a:b] of Python for 0 <= a, 0 <= b
Slice(l, a, b) ==
    LET hi == Min(b, Len(l))
    IN  IF a >= hi THEN << >> ELSE [k \in 1..(hi - a) |-> l[a + k]]

\* l[a:]
SliceFrom(l, a) == Slice(l, a, Len(l))

\* l.insert(i, e) for 0 <= i <= len(l)
Insert(l, i, e) == Slice(l, 0, i) \o <<e>> \o SliceFrom(l, i)

\* [e] * n
Repeat(e, n) == [k \in 1..n |-> e]

(* ---------------- the axis option registry ---------------- *)

\* the labels of the axis options the model draws from
Options ==
    {"Nothing", "Seed", "Var. seed", "Steps", "CFG Scale", "Prompt S/R",
     "Prompt order", "Checkpoint name", "FP8 mode", "Refiner checkpoint"}

\* AxisOption.cost, in tenths
Cost(label) ==
    CASE label = "Checkpoint name" -> 10
      [] label = "Refiner checkpoint" -> 10
      [] label = "FP8 mode" -> 9
      [] OTHER -> 0

\* A prompt is the sequence of its characters, and the values of the prompt
\* axes are strings of one character.

\* s.find(c): the index of the first c in s, or -1
Find(s, c) ==
    IF \E k \in 1..Len(s) : s[k] = c
    THEN (CHOOSE k \in 1..Len(s) : s[k] = c /\ \A j \in 1..(k - 1) : s[j] # c) - 1
    ELSE -1

\* s.replace(c, x)
Replace(s, c, x) == [k \in 1..Len(s) |-> IF s[k] = c THEN x ELSE s[k]]

\* s[0:n] for n >= -1
SliceTo(s, n) == IF n >= 0 THEN Slice(s, 0, n) ELSE Slice(s, 0, Max(0, Len(s) + n))

\* token_order of apply_order after the sort: the tokens of x by the place
\* p.prompt.find finds them at, tokens of the same place in the order of x
TokenOrder(prompt, x) ==
    LET key == [k \in 1..Len(x) |-> Find(prompt, x[k])]
        rank == [k \in 1..Len(x) |->
                    Cardinality({ j \in 1..Len(x) :
                        key[j] < key[k] \/ (key[j] = key[k] /\ j < k) }) + 1]
    IN  [r \in 1..Len(x) |-> x[CHOOSE k \in 1..Len(x) : rank[k] = r]]

\* prompt_parts and p.prompt after the loop of apply_order that takes the
\* tokens out of the prompt, from its turn i on
RECURSIVE SplitPrompt(_, _, _, _)
SplitPrompt(tokens, i, parts, prompt) ==
    IF i > Len(tokens) THEN [parts |-> parts, prompt |-> prompt]
    ELSE LET n == Find(prompt, tokens[i])
         IN  SplitPrompt(tokens, i + 1, Append(parts, SliceTo(prompt, n)),
                         SliceFrom(prompt, n + 1))

\* prompt_tmp of apply_order after the turn idx of its last loop
RECURSIVE JoinParts(_, _, _)
JoinParts(parts, x, idx) ==
    IF idx = 0 THEN << >>
    ELSE JoinParts(parts, x, idx - 1) \o parts[idx] \o <<x[idx]>>

\* p.prompt after apply_order(p, x, xs)
ApplyOrder(prompt, x) ==
    LET split == SplitPrompt(TokenOrder(prompt, x), 1, << >>, prompt)
    IN  JoinParts(split.parts, x, Len(split.parts)) \o split.prompt

\* opt.apply(pc, x, xs) raises: apply_prompt does not find xs[0]
ApplyRaises(label, req, xs) ==
    /\ label = "Prompt S/R"
    /\ Find(req.prompt, xs[1]) = -1
    /\ Find(req.negative_prompt, xs[1]) = -1

\* AxisOption.apply: the request clone and the override_settings dict it
\* shares with the template, after opt.apply(pc, x, xs)
ApplyReq(label, req, x, xs) ==
    CASE label = "Seed" -> [req EXCEPT !.seed = x]
      [] label = "Prompt S/R" ->
            [req EXCEPT !.prompt = Replace(@, xs[1], x),
                        !.negative_prompt = Replace(@, xs[1], x)]
      [] label = "Prompt order" -> [req EXCEPT !.prompt = ApplyOrder(@, x)]
      [] label = "Var. seed" -> [req EXCEPT !.subseed = x]
      [] label = "Steps" -> [req EXCEPT !.steps = x]
      [] label = "CFG Scale" -> [req EXCEPT !.cfg_scale = x]
      [] label = "Refiner checkpoint" -> [req EXCEPT !.refiner_checkpoint = x]
      [] OTHER -> req

ApplyOverride(label, ovr, x) ==
    CASE label = "Checkpoint name" -> [ovr EXCEPT !.sd_model_checkpoint = x]
      [] label = "FP8 mode" -> [ovr EXCEPT !.fp8_storage = x]
      [] OTHER -> ovr

(* ---------------- the iteration planner ---------------- *)

\* a planner that, under a most expensive X axis, takes the cheaper of Y and Z
\* for the second loop
PlannerCheaperSecond(cx, cy, cz) ==
    IF cx > cy /\ cx > cz
    THEN IF cy > cz THEN <<"x", "z">> ELSE <<"x", "y">>
    ELSE IF cy > cx /\ cy > cz
    THEN IF cx > cz THEN <<"y", "x">> ELSE <<"y", "z">>
    ELSE IF cz > cx /\ cz > cy
    THEN IF cx > cy THEN <<"z", "x">> ELSE <<"z", "y">>
    ELSE <<"z", "y">>

\* first_axes_processed, second_axes_processed of run, from the three costs
Planner(cx, cy, cz) ==
    IF cx > cy /\ cx > cz
    THEN IF cy > cz THEN <<"x", "y">> ELSE <<"x", "z">>
    ELSE IF cy > cx /\ cy > cz
    THEN IF cx > cz THEN <<"y", "x">> ELSE <<"y", "z">>
    ELSE IF cz > cx /\ cz > cy
    THEN IF cx > cy THEN <<"z", "x">> ELSE <<"z", "y">>
    ELSE <<"z", "y">>

\* the loop nest of draw_xyz_grid, outermost axis first
LoopNest(first, second) ==
    IF first = "x"
    THEN IF second = "y" THEN <<"x", "y", "z">> ELSE <<"x", "z", "y">>
    ELSE IF first = "y"
    THEN IF second = "x" THEN <<"y", "x", "z">> ELSE <<"y", "z", "x">>
    ELSE IF second = "x" THEN <<"z", "x", "y">> ELSE <<"z", "y", "x">>

\* the indices [x |-> ix, y |-> iy, z |-> iz] of the n-th cell (n from 0) the
\* loop nest visits, for axes of the lengths len.x, len.y, len.z
NthCell(nest, len, n) ==
    LET a == nest[1]
        b == nest[2]
        c == nest[3]
    IN  [k \in {"x", "y", "z"} |->
            IF k = c THEN n % len[c]
            ELSE IF k = b THEN (n \div len[c]) % len[b]
            ELSE n \div (len[c] * len[b])]


(* ---------------- requests, results, images ---------------- *)

\* round(num / den) of Python 3 for num >= 0, den > 0: halves go to the even
Round(num, den) ==
    LET q == num \div den
        r == num % den
    IN  IF 2 * r < den THEN q
        ELSE IF 2 * r > den THEN q + 1
        ELSE IF q % 2 = 0 THEN q ELSE q + 1

\* opts.img_max_size_mp, the configured maximum of the size guard
ImgMaxSizeMP == 3

\* what the renderer sees of a request: the fields of the clone and the
\* override_settings dict the clone shares with the template
Request(req, ovr) ==
    [seed |-> req.seed, subseed |-> req.subseed, steps |-> req.steps,
     cfg_scale |-> req.cfg_scale,
     prompt |-> req.prompt, negative_prompt |-> req.negative_prompt,
     refiner_checkpoint |-> req.refiner_checkpoint,
     sd_model_checkpoint |-> ovr.sd_model_checkpoint,
     fp8_storage |-> ovr.fp8_storage]

\* Processed(p, [], p.seed, ""): a result without images
EmptyProcessed(req) ==
    [images |-> << >>, all_prompts |-> << >>, all_seeds |-> << >>,
     infotexts |-> << >>, prompt |-> None,
     seed |-> [kind |-> "seed", v |-> req.seed],
     width |-> req.width, height |-> req.height]

\* the result of process_images(pc) when it returns: the images of the batch
\* (req.batch of them, image nth with the seed of the request plus nth), each
\* with its prompt, seed and infotext, and the prompt and seed of the first.
\* The cell the call was made for is recorded in the images (of: the values,
\* at: the indices), so that a result can be told from another cell's.
Rendered(req, ovr, vals, at) ==
    LET r == Request(req, ovr)
        prompt == [kind |-> "prompt", of |-> vals, req |-> r]
        seed == [kind |-> "seed", v |-> req.seed]
    IN  [images |-> [j \in 1..req.batch |->
                        [kind |-> "image", of |-> vals, at |-> at, req |-> r,
                         nth |-> j - 1, mode |-> "RGB",
                         size |-> <<req.width, req.height>>]],
         all_prompts |-> [j \in 1..req.batch |-> prompt],
         all_seeds |-> [j \in 1..req.batch |->
                           [kind |-> "seed", v |-> req.seed + (j - 1)]],
         infotexts |-> [j \in 1..req.batch |->
                           [kind |-> "info", of |-> vals, req |-> r, nth |-> j - 1]],
         prompt |-> prompt, seed |-> seed,
         width |-> req.width, height |-> req.height]

\* Image.new(cell_mode, cell_size)
Blank(mode, size) == [kind |-> "blank", mode |-> mode, size |-> size]

\* images.image_grid(imgs, rows=rows), with the legend drawn or not
ImageGrid(imgs, rows) == [kind |-> "grid", rows |-> rows, cells |-> imgs]

(* ---------------- state ---------------- *)

VARIABLES
    args,               \* the arguments of run
    world,              \* what the environment may do during the run
    p,                  \* the template request
    override_settings,  \* p.override_settings, shared by every copy(p)
    state,              \* shared.state: the interruption flags
    pc,                 \* where the run is
    run,                \* the locals of run
    g,                  \* the frame of draw_xyz_grid
    h                   \* history: what the environment has seen

vars == <<args, world, p, override_settings, state, pc, run, g, h>>

(* ---------------- the arguments of run ---------------- *)

Axes == {"x", "y", "z"}

\* The raw values of an axis are the strings csv_string_to_list_strip makes
\* of the text field, or the selection of the dropdown.  A string is a
\* literal value ("7", a checkpoint name), a word no number can be read from,
\* the empty string, or a range "a-b", "a-b(s)" or "a-b[n]".
Value(k) == [kind |-> "value", v |-> k]
Word == [kind |-> "word", v |-> 0]
Empty == [kind |-> "empty", v |-> 0]
Range(a, b) ==
    [kind |-> "range", a |-> a, b |-> b, has_step |-> FALSE, step |-> 0,
     has_count |-> FALSE, count |-> 0]
RangeStep(a, b, s) == [Range(a, b) EXCEPT !.has_step = TRUE, !.step = s]
RangeCount(a, b, n) == [Range(a, b) EXCEPT !.has_count = TRUE, !.count = n]

\* n literal values: 1, 2, ...
Plain(n) == [k \in 1..n |-> Value(k)]

\* one call of run: the axis types, the raw values of each axis and their
\* number, whether the validators accept the values they are given, the
\* number of images the renderer returns for a request (p.batch_size times
\* p.n_iter), the side of a cell in units of 250 pixels, and the checkboxes
\* and sliders
MkArgs(opt, len, ok, side, mode, vary) ==
    [x_opt |-> opt[1], y_opt |-> opt[2], z_opt |-> opt[3],
     x_len |-> len[1], y_len |-> len[2], z_len |-> len[3],
     x_vals |-> Plain(len[1]), y_vals |-> Plain(len[2]), z_vals |-> Plain(len[3]),
     axes_ok |-> ok, no_fixed_seeds |-> FALSE, batch |-> 1,
     width |-> side, height |-> side,
     skip_grid |-> mode.skip_grid,
     items_per_grid |-> mode.items_per_grid,
     include_lone_images |-> mode.include_lone_images,
     include_sub_grids |-> mode.include_sub_grids,
     vary_seeds_x |-> vary[1], vary_seeds_y |-> vary[2], vary_seeds_z |-> vary[3]]

Lens == (0..MaxAxisLen) \X (0..MaxAxisLen) \X (0..MaxAxisLen)

Modes ==
    [skip_grid : BOOLEAN, items_per_grid : 0..MaxItemsPerGrid,
     include_lone_images : BOOLEAN, include_sub_grids : BOOLEAN]

Varies == BOOLEAN \X BOOLEAN \X BOOLEAN

\* the settings of the form as it first shows
DefaultMode ==
    [skip_grid |-> FALSE, items_per_grid |-> 0,
     include_lone_images |-> FALSE, include_sub_grids |-> FALSE]

DefaultVary == <<FALSE, FALSE, FALSE>>

\* the unchunked grid, the chunked grid and the skip-grid mode
ThreeModes ==
    { DefaultMode, [DefaultMode EXCEPT !.items_per_grid = 1],
      [DefaultMode EXCEPT !.skip_grid = TRUE] }

\* three axes of three different costs, in every arrangement, and a pair of
\* equally expensive axes around a free one
OrderOptions ==
    { o \in Options \X Options \X Options :
        {o[1], o[2], o[3]} = {"Checkpoint name", "FP8 mode", "Steps"} }
    \cup { <<"Checkpoint name", "Steps", "Refiner checkpoint">> }

\* the ranges an integer axis is given
RangeEnds == (-2)..MaxRangeEnd

RangeTokens ==
    { Range(a, b) : a \in RangeEnds, b \in RangeEnds }
    \cup { RangeStep(a, b, s) : a \in RangeEnds, b \in RangeEnds,
                                s \in (-MaxStep)..MaxStep }
    \cup { RangeCount(a, b, n) : a \in RangeEnds, b \in RangeEnds, n \in 0..MaxCount }

\* the ranges a float axis is given, in halves; a range with a count is one
\* whose points are whole halves
FloatEnds == 0..MaxFloatEnd

FloatRangeTokens ==
    { Range(a, b) : a \in FloatEnds, b \in FloatEnds }
    \cup { RangeStep(a, b, s) : a \in FloatEnds, b \in FloatEnds,
                                s \in (-MaxStep)..MaxStep }
    \cup { t \in { RangeCount(a, b, n) : a \in FloatEnds, b \in FloatEnds,
                                          n \in 0..MaxCount } :
             t.count <= 1 \/ (t.b - t.a) % (t.count - 1) = 0 }

\* the values of a Prompt S/R axis: the first is searched for, and is in the
\* prompt, in the negative prompt or in neither
SearchSpecs ==
    { <<Value(1), Value(4)>>, <<Value(2), Value(1)>>, <<Value(3), Value(4)>>,
      <<Value(4), Value(1)>>, <<Value(2)>> }

\* strings of several kinds on one axis
MixedSpecs ==
    { <<Empty>>, <<Word>>, <<Value(3), Word>>, <<Empty, Value(3), Empty>>,
      <<Value(7), Range(1, 2), RangeCount(0, 4, 3)>>,
      <<RangeStep(1, 5, 2), Empty, RangeStep(1, 3, 0)>> }

\* the values of a seed axis with seeds of -1
MinusOneSpecs ==
    { <<Value(-1)>>, <<Value(-1), Value(5)>>, <<Value(-1), Value(-1)>> }

\* the values of a permutation axis
PermSpecs ==
    UNION { [1..n -> { Value(k) : k \in 1..MaxPermLen }] : n \in 0..MaxPermLen }

\* What the environment does during a run at most: how often the renderer
\* raises and how often the interruption flags change.
Quiet == [failures |-> 0, flag_events |-> 0]
Failing == [failures |-> MaxFailures, flag_events |-> 0]
Active == [failures |-> 0, flag_events |-> MaxFlagEvents]
Stormy == [failures |-> MaxFailures, flag_events |-> MaxFlagEvents]
Hopeless == [failures |-> MaxCellFailures, flag_events |-> 0]

\* The runs of the model: the arguments of run and the environment.  Each
\* family lets some arguments range over all their values within the bounds
\* and keeps the others fixed.
Runs ==
    \* every arrangement of the costs, for every shape of the grid
    { << MkArgs(o, l, TRUE, 2, [DefaultMode EXCEPT !.include_lone_images = TRUE,
                                                   !.include_sub_grids = TRUE],
                DefaultVary), Failing >> :
        o \in OrderOptions, l \in Lens }
    \cup
    \* every triple of axis types, on a grid of one cell
    { << MkArgs(o, <<1, 1, 1>>, TRUE, 2, DefaultMode, DefaultVary), Quiet >> :
        o \in Options \X Options \X Options }
    \cup
    \* every output mode, for every shape of the grid
    { << MkArgs(<<"Seed", "Steps", "Checkpoint name">>, l, TRUE, 2, m, DefaultVary),
         Quiet >> :
        l \in Lens, m \in Modes }
    \cup
    \* interruptions in every kind of sweep
    { << MkArgs(<<"Seed", "Steps", "Checkpoint name">>, l, TRUE, 2, m, DefaultVary),
         Active >> :
        l \in Lens, m \in ThreeModes }
    \cup
    \* interruptions of sweeps that keep the images of the cells
    { << MkArgs(<<"Seed", "Steps", "Checkpoint name">>, <<2, 1, 2>>, TRUE, 2,
                [m EXCEPT !.include_lone_images = TRUE], DefaultVary), Active >> :
        m \in ThreeModes }
    \cup
    \* failures among interruptions, on a grid of two slices
    { << MkArgs(<<"Seed", "Steps", "Checkpoint name">>, <<2, 1, 2>>, TRUE, 2, m,
                DefaultVary), Stormy >> :
        m \in ThreeModes }
    \cup
    \* failures of any cells, of all cells too, on grids that are wider than
    \* high, higher than wide, and of two slices
    { << MkArgs(<<"Seed", "Steps", "Checkpoint name">>, l, TRUE, 2,
                [m EXCEPT !.include_lone_images = TRUE, !.include_sub_grids = sub],
                DefaultVary), Hopeless >> :
        l \in { <<3, 2, 1>>, <<1, 2, 1>>, <<2, 1, 2>> }, m \in ThreeModes,
        sub \in BOOLEAN }
    \cup
    \* seeds of -1 on a seed axis beside two 'Nothing' axes, kept or replaced,
    \* in every output mode
    { << [MkArgs(<<o, "Nothing", "Nothing">>, <<Len(v), 1, 1>>, TRUE, 2,
                 [m EXCEPT !.include_lone_images = lone, !.include_sub_grids = sub],
                 DefaultVary)
            EXCEPT !.x_vals = v, !.no_fixed_seeds = keep], Quiet >> :
        o \in {"Seed", "Var. seed"}, v \in MinusOneSpecs, m \in ThreeModes,
        lone \in BOOLEAN, sub \in BOOLEAN, keep \in BOOLEAN }
    \cup
    \* seeds of -1 on the Y and the Z axis
    { << [MkArgs(<<"Nothing", "Seed", "Var. seed">>, <<1, 1, 2>>, TRUE, 2,
                 DefaultMode, DefaultVary)
            EXCEPT !.y_vals = <<Value(-1)>>, !.z_vals = <<Value(3), Value(-1)>>,
                   !.no_fixed_seeds = keep], Quiet >> :
        keep \in BOOLEAN }
    \cup
    \* every arrangement of the costs in every output mode
    { << MkArgs(o, <<2, 2, 2>>, TRUE, 2, m, DefaultVary), Quiet >> :
        o \in OrderOptions, m \in ThreeModes }
    \cup
    \* two and three axes that set the same field of the request
    { << MkArgs(o, <<2, 2, 2>>, TRUE, 2, m, DefaultVary), Quiet >> :
        o \in { <<"Seed", "Seed", "Nothing">>, <<"Nothing", "Seed", "Seed">>,
                <<"Seed", "Nothing", "Seed">>, <<"Seed", "Seed", "Seed">> },
        m \in ThreeModes }
    \cup
    \* every choice of the seed variation, around a Seed axis
    { << MkArgs(<<"Steps", "Seed", "FP8 mode">>, l, TRUE, 2, m, v), Quiet >> :
        l \in Lens, v \in Varies, m \in ThreeModes }
    \cup
    \* the seed variation on a long X axis
    { << MkArgs(<<"Steps", "FP8 mode", "Checkpoint name">>, <<LongAxisLen, 2, 2>>, TRUE, 1,
                DefaultMode, v), Quiet >> :
        v \in Varies }
    \cup
    \* one axis of every length cut into chunks of every size
    { << MkArgs(<<"Steps", "Nothing", "Nothing">>, <<l, 1, 1>>, TRUE, 1,
                [DefaultMode EXCEPT !.items_per_grid = n], DefaultVary), Quiet >> :
        l \in 1..MaxChunkedLen, n \in 1..MaxChunkSize }
    \cup
    \* an integer axis given by one range, or by a few strings
    { << [MkArgs(<<"Steps", "Nothing", "Nothing">>, <<Len(v), 1, 1>>, TRUE, 1,
                 DefaultMode, DefaultVary) EXCEPT !.x_vals = v], Quiet >> :
        v \in { <<t>> : t \in RangeTokens } \cup MixedSpecs }
    \cup
    \* a renderer that returns a batch of images for every cell, and may fail
    { << [MkArgs(<<"Seed", "Steps", "Checkpoint name">>, l, TRUE, 1,
                 [m EXCEPT !.include_lone_images = lone], DefaultVary)
            EXCEPT !.batch = b], Failing >> :
        l \in { <<2, 1, 1>>, <<1, 2, 2>> }, m \in ThreeModes, lone \in BOOLEAN,
        b \in 2..MaxBatch }
    \cup
    \* two Prompt S/R axes, beside a cheap axis and around an expensive one
    { << [MkArgs(<<"Prompt S/R", "Prompt S/R", "Steps">>, <<Len(v), Len(w), 1>>,
                 TRUE, 1, [m EXCEPT !.include_lone_images = TRUE], DefaultVary)
            EXCEPT !.x_vals = v, !.y_vals = w], Failing >> :
        v \in SearchSpecs, w \in SearchSpecs, m \in ThreeModes }
    \cup
    { << [MkArgs(<<"Prompt S/R", "Checkpoint name", "Prompt S/R">>,
                 <<Len(v), 2, Len(w)>>, TRUE, 1, m, DefaultVary)
            EXCEPT !.x_vals = v, !.z_vals = w], Quiet >> :
        v \in SearchSpecs, w \in SearchSpecs, m \in ThreeModes }
    \cup
    \* a float axis given by one range, or by a few strings
    { << [MkArgs(<<"CFG Scale", "Nothing", "Nothing">>, <<Len(v), 1, 1>>, TRUE, 1,
                 DefaultMode, DefaultVary) EXCEPT !.x_vals = v], Quiet >> :
        v \in { <<t>> : t \in FloatRangeTokens } \cup MixedSpecs }
    \cup
    \* a permutation axis of a few values, equal ones among them
    { << [MkArgs(<<"Prompt order", "Nothing", "Nothing">>, <<Len(v), 1, 1>>, TRUE, 1,
                 DefaultMode, DefaultVary) EXCEPT !.x_vals = v], Quiet >> :
        v \in PermSpecs }
    \cup
    \* axes with validators that accept or reject, beside an integer axis
    \* with or without a string that is no number
    { << [MkArgs(o, l, ok, 1, DefaultMode, DefaultVary)
            EXCEPT !.z_vals = IF word THEN Append(@, Word) ELSE @], Quiet >> :
        o \in { <<"Checkpoint name", "Refiner checkpoint", "Steps">>,
                <<"Refiner checkpoint", "Checkpoint name", "Seed">> },
        l \in Lens, ok \in BOOLEAN, word \in BOOLEAN }
    \cup
    \* values that are rejected and cells that are too large
    { << MkArgs(<<"Seed", "Steps", "Checkpoint name">>, l, ok, side, m, DefaultVary),
         Quiet >> :
        l \in Lens, ok \in BOOLEAN, side \in {2, 4}, m \in ThreeModes }
    \cup
    \* sweeps of quarter-megapixel cells up to the configured maximum, and of
    \* one-megapixel cells around it
    { << MkArgs(<<"Steps", "Nothing", "Nothing">>, <<l, 1, 1>>, TRUE, 2,
                DefaultMode, DefaultVary), Quiet >> : l \in 1..(4 * ImgMaxSizeMP) }
    \cup
    { << MkArgs(<<"Steps", "Nothing", "Nothing">>, <<l, 1, 1>>, TRUE, 4,
                DefaultMode, DefaultVary), Quiet >> : l \in 1..(ImgMaxSizeMP + 1) }

(* ---------------- run, up to the first cell ---------------- *)

\* opt.type is int
IntAxis(label) == label \in {"Seed", "Var. seed", "Steps"}

\* opt.type is float
FloatAxis(label) == label = "CFG Scale"

\* no axis option declares a validator
HasConfirmNever(label) == FALSE

\* opt.confirm is not None
HasConfirm(label) == label \in {"Checkpoint name", "Refiner checkpoint"}

\* re_range.fullmatch(val) and re_range_count.fullmatch(val) are not None:
\* the step and the count are optional groups of their patterns
ReRange(val) == val.kind = "range" /\ ~val.has_count
ReRangeCount(val) == val.kind = "range" /\ ~val.has_step

\* list(range(start, stop, step)) for a step that is not 0
PyRange(start, stop, step) ==
    LET n == IF step > 0
             THEN (IF stop > start THEN (stop - start + step - 1) \div step ELSE 0)
             ELSE (IF start > stop THEN (start - stop - step - 1) \div (-step) ELSE 0)
    IN  [k \in 1..n |-> start + (k - 1) * step]

\* num / den cut to the integer below
TruncFloor(num, den) == num \div den

\* int(x) of the quotient num / den, den > 0: the fraction is cut off
Trunc(num, den) ==
    IF num >= 0 THEN num \div den ELSE -((-num) \div den)

\* [int(x) for x in np.linspace(start, stop, num).tolist()]
Linspace(start, stop, num) ==
    IF num = 1 THEN <<start>>
    ELSE [k \in 1..num |->
            Trunc(start * (num - 1) + (k - 1) * (stop - start), num - 1)]

\* what the loop over valslist of an int axis adds to valslist_ext for val
ExpandInt(val) ==
    IF val.kind = "empty" THEN << >>
    ELSE IF ReRange(val)
    THEN LET ints == PyRange(val.a, val.b + 1, IF val.has_step THEN val.step ELSE 1)
         IN  [k \in 1..Len(ints) |-> Value(ints[k])]
    ELSE IF ReRangeCount(val)
    THEN LET ints == Linspace(val.a, val.b, IF val.has_count THEN val.count ELSE 1)
         IN  [k \in 1..Len(ints) |-> Value(ints[k])]
    ELSE <<val>>

RECURSIVE ExpandAll(_)
ExpandAll(valslist) ==
    IF valslist = << >> THEN << >>
    ELSE ExpandInt(Head(valslist)) \o ExpandAll(Tail(valslist))

\* re_range_float.fullmatch(val) and re_range_count_float.fullmatch(val) are
\* not None: they are the patterns of the int axis with decimals admitted
ReRangeFloat(val) == val.kind = "range" /\ ~val.has_count
ReRangeCountFloat(val) == val.kind = "range" /\ ~val.has_step

\* np.arange(start, stop, step).tolist() for a step that is not 0: the
\* ceil((stop - start) / step) values start, start + step, ... before stop
Arange(start, stop, step) ==
    LET n == IF (step > 0 /\ stop > start) \/ (step < 0 /\ stop < start)
             THEN (stop - start + step + (IF step > 0 THEN -1 ELSE 1)) \div step
             ELSE 0
    IN  [k \in 1..n |-> start + (k - 1) * step]

\* np.linspace(start, stop, num).tolist() of the float axis, for the counts
\* whose points are whole halves
LinspaceFloat(start, stop, num) ==
    IF num = 1 THEN <<start>>
    ELSE [k \in 1..num |-> (start * (num - 1) + (k - 1) * (stop - start)) \div (num - 1)]

\* what the loop over valslist of a float axis adds to valslist_ext for val
ExpandFloat(val) ==
    IF val.kind = "empty" THEN << >>
    ELSE IF ReRangeFloat(val)
    THEN LET step == IF val.has_step THEN val.step ELSE FloatOne
             nums == Arange(val.a, val.b + step, step)
         IN  [k \in 1..Len(nums) |-> Value(nums[k])]
    ELSE IF ReRangeCountFloat(val)
    THEN LET nums == LinspaceFloat(val.a, val.b, IF val.has_count THEN val.count ELSE 1)
         IN  [k \in 1..Len(nums) |-> Value(nums[k])]
    ELSE <<val>>

RECURSIVE ExpandAllFloat(_)
ExpandAllFloat(valslist) ==
    IF valslist = << >> THEN << >>
    ELSE ExpandFloat(Head(valslist)) \o ExpandAllFloat(Tail(valslist))

\* l without the elements that equal its element at position i
WithoutValue(l, i) == SelectSeq(l, LAMBDA e : e # l[i])

\* l without its element at position i
Without(l, i) == SubSeq(l, 1, i - 1) \o SubSeq(l, i + 1, Len(l))

\* list(permutations(valslist)): the orderings of the positions of the list,
\* in the order itertools makes them
RECURSIVE ListPermutations(_)
RECURSIVE PermutationsFrom(_, _)
PermutationsFrom(l, i) ==
    IF i > Len(l) THEN << >>
    ELSE LET rest == ListPermutations(Without(l, i))
         IN  [k \in 1..Len(rest) |-> <<l[i]>> \o rest[k]]
             \o PermutationsFrom(l, i + 1)
ListPermutations(l) ==
    IF l = << >> THEN << << >> >> ELSE PermutationsFrom(l, 1)

\* process_axis(opt, vals, vals_dropdown) for the axis named axis: the value
\* list it returns or the exception it raises, and the call of opt.confirm it
\* makes.  range() and np.arange raise for a step of 0, int() and float() for
\* a string that is no number; the validators raise for a name that is not
\* known.
ProcessAxis(axis, label, vals) ==
    IF label = "Nothing"
    THEN [error |-> "none", valslist |-> <<0>>, confirm |-> << >>]
    ELSE LET zero_step == \E k \in 1..Len(vals) :
                             ReRange(vals[k]) /\ vals[k].has_step /\ vals[k].step = 0
             ext == IF IntAxis(label) THEN ExpandAll(vals)
                    ELSE IF FloatAxis(label) THEN ExpandAllFloat(vals)
                    ELSE IF label = "Prompt order" THEN ListPermutations(vals)
                    ELSE vals
             typed == IF label = "Prompt order"
                      THEN [k \in 1..Len(ext) |->
                               [j \in 1..Len(ext[k]) |-> ext[k][j].v]]
                      ELSE [k \in 1..Len(ext) |-> ext[k].v]
             call == [axis |-> axis, label |-> label, xs |-> typed]
         IN  IF IntAxis(label) /\ zero_step
             THEN [error |-> "ValueError", valslist |-> << >>, confirm |-> << >>]
             ELSE IF FloatAxis(label) /\ zero_step
             THEN [error |-> "NumpyError", valslist |-> << >>, confirm |-> << >>]
             ELSE IF (IntAxis(label) \/ FloatAxis(label))
                     /\ \E k \in 1..Len(ext) : ext[k].kind # "value"
             THEN [error |-> "ValueError", valslist |-> << >>, confirm |-> << >>]
             ELSE IF HasConfirm(label)
             THEN [error |-> IF ~args.axes_ok /\ typed # << >>
                             THEN "RuntimeError" ELSE "none",
                   valslist |-> typed, confirm |-> <<call>>]
             ELSE [error |-> "none", valslist |-> typed, confirm |-> << >>]

\* what random.randrange may return: the least and the largest value
RandomSeeds == {0, RandRange - 1}

\* the draws of one run, in the order they are made on an axis
Draws == [1..MaxDraws -> RandomSeeds]

\* a fix_axis_seeds that leaves every value as it is
FixAxisSeedsNever(label, list, rnd) == list

\* fix_axis_seeds(axis_opt, axis_list): every -1 of a Seed or Var. seed axis
\* is replaced by a draw of random.randrange
FixAxisSeeds(label, list, rnd) ==
    IF label \in {"Seed", "Var. seed"}
    THEN [k \in 1..Len(list) |->
            IF list[k] = -1 THEN rnd[((k - 1) % MaxDraws) + 1] ELSE list[k]]
    ELSE list

\* grid_mp of run; width and height are in units of 250 pixels, so that a
\* cell has width * height / 16 megapixels
GridMP(xs, ys, zs, width, height) ==
    Round(Len(xs) * Len(ys) * Len(zs) * width * height, 16)

\* max(axis_lengths.items(), key=...)[0]: the first of x, y, z among the
\* longest axes
MainAxis(xs, ys, zs) ==
    IF Len(xs) >= Len(ys) /\ Len(xs) >= Len(zs) THEN "x"
    ELSE IF Len(ys) >= Len(zs) THEN "y"
    ELSE "z"

\* chunks that each take one value more than the chunk size
ChunksOverlapping(values, n) ==
    [k \in 1..((Len(values) + n - 1) \div n) |-> Slice(values, (k - 1) * n, k * n + 1)]

\* [values[i : i + n] for i in range(0, len(values), n)]
Chunks(values, n) ==
    [k \in 1..((Len(values) + n - 1) \div n) |-> Slice(values, (k - 1) * n, k * n)]

\* the locals of draw_xyz_grid when it is entered
Frame(xs, ys, zs) ==
    [xs |-> xs, ys |-> ys, zs |-> zs,
     n |-> 0,                       \* cells the loop nest has visited
     i |-> 0,                       \* the slice the composition is at
     processed_result |-> None,
     writes |-> Repeat(0, Len(xs) * Len(ys) * Len(zs))]

\* the arguments draw_xyz_grid gets for the chunk at chunk_idx
ChunkFrame(r, chunk) ==
    Frame(IF r.main_axis = "x" THEN chunk ELSE r.xs,
          IF r.main_axis = "y" THEN chunk ELSE r.ys,
          IF r.main_axis = "z" THEN chunk ELSE r.zs)

NoFrame == Frame(<< >>, << >>, << >>)

Init ==
    /\ \E r \in Runs : args = r[1] /\ world = r[2]
    /\ p = [seed |-> BaseSeed, subseed |-> BaseSeed + 1, steps |-> 20,
            cfg_scale |-> 7 * FloatOne, refiner_checkpoint |-> 0,
            prompt |-> <<1, 2>>, negative_prompt |-> <<3>>,
            batch |-> args.batch,
            width |-> args.width, height |-> args.height]
    /\ override_settings = [sd_model_checkpoint |-> 0, fp8_storage |-> 0]
    /\ state = [interrupted |-> FALSE, stopping_generation |-> FALSE]
    /\ pc = "run"
    /\ run = [xs |-> << >>, ys |-> << >>, zs |-> << >>,
              include_lone_images |-> args.include_lone_images,
              include_sub_grids |-> args.include_sub_grids,
              first_axes_processed |-> "", second_axes_processed |-> "",
              grid_infotext |-> << >>,
              mode |-> "", main_axis |-> "", chunks |-> << >>, chunk_idx |-> 0,
              final_processed |-> None, processed |-> None, n |-> 0,
              result |-> None, error |-> "none"]
    /\ g = NoFrame
    /\ h = [log |-> << >>, cells |-> << >>, failures |-> 0, flagEvents |-> 0,
            observed |-> FALSE, entered |-> FALSE, ret |-> None,
            chunk_out |-> << >>, confirms |-> << >>, infotexts |-> << >>]

\* run, lines 1109-1301 and the entry of the with block up to the first cell:
\* the axes are parsed, the size guard and the planner run, and the output
\* mode is chosen
Setup ==
    /\ pc = "run"
    /\ \E rnd \in Draws :
       \E ax \in {ProcessAxis("x", args.x_opt, args.x_vals)} :
       \E ay \in {ProcessAxis("y", args.y_opt, args.y_vals)} :
       \E az \in {ProcessAxis("z", args.z_opt, args.z_vals)} :
       LET error == IF ax.error # "none" THEN ax.error
                    ELSE IF ay.error # "none" THEN ay.error ELSE az.error
           confirms == ax.confirm \o
                       (IF ax.error # "none" THEN << >>
                        ELSE ay.confirm \o
                             (IF ay.error # "none" THEN << >> ELSE az.confirm))
           fix == ~args.no_fixed_seeds
           xs == IF fix THEN FixAxisSeeds(args.x_opt, ax.valslist, rnd) ELSE ax.valslist
           ys == IF fix THEN FixAxisSeeds(args.y_opt, ay.valslist, rnd) ELSE ay.valslist
           zs == IF fix THEN FixAxisSeeds(args.z_opt, az.valslist, rnd) ELSE az.valslist
           plan == Planner(Cost(args.x_opt), Cost(args.y_opt), Cost(args.z_opt))
           r0 == [run EXCEPT
                    !.include_lone_images =
                        IF args.skip_grid THEN TRUE ELSE args.include_lone_images,
                    !.include_sub_grids =
                        IF args.skip_grid THEN FALSE ELSE args.include_sub_grids,
                    !.xs = xs, !.ys = ys, !.zs = zs,
                    !.first_axes_processed = plan[1],
                    !.second_axes_processed = plan[2],
                    !.grid_infotext = Repeat(None, 1 + Len(zs))]
           items_per_grid == Max(1, args.items_per_grid)
           main_axis == MainAxis(xs, ys, zs)
           values == IF main_axis = "x" THEN xs
                     ELSE IF main_axis = "y" THEN ys ELSE zs
           r1 == [r0 EXCEPT !.main_axis = main_axis,
                            !.chunks = Chunks(values, items_per_grid)]
       IN  IF error # "none"
           THEN \* range(), opt.type(x) or opt.confirm raises in process_axis
                /\ pc' = "done"
                /\ run' = [run EXCEPT !.error = error]
                /\ h' = [h EXCEPT !.confirms = confirms]
                /\ g' = g
           ELSE IF ~(GridMP(xs, ys, zs, p.width, p.height) < ImgMaxSizeMP)
           THEN /\ pc' = "done"
                /\ run' = [run EXCEPT !.error = "AssertionError"]
                /\ h' = [h EXCEPT !.confirms = confirms]
                /\ g' = g
           ELSE /\ h' = [h EXCEPT !.entered = TRUE, !.confirms = confirms]
                /\ IF args.items_per_grid > 0 /\ ~args.skip_grid /\ Len(values) > 1
                   THEN /\ run' = [r1 EXCEPT !.mode = "chunked"]
                        /\ g' = ChunkFrame(r1, r1.chunks[1])
                        /\ pc' = "cells"
                   ELSE IF args.skip_grid
                   THEN /\ run' = [r0 EXCEPT !.mode = "skip",
                                  !.processed =
                                      [EmptyProcessed(p) EXCEPT !.images = << >>]]
                        /\ g' = g
                        /\ pc' = "skip"
                   ELSE /\ run' = [r0 EXCEPT !.mode = "grid"]
                        /\ g' = Frame(xs, ys, zs)
                        /\ pc' = "cells"
    /\ UNCHANGED <<args, world, p, override_settings, state>>

(* ---------------- cell ---------------- *)

\* a seed variation whose strides are the axis lengths whatever the flags
CellSeedFullStride(seed, ix, iy, iz) ==
    seed + (IF args.vary_seeds_x THEN ix ELSE 0)
         + (IF args.vary_seeds_y THEN iy * Len(run.xs) ELSE 0)
         + (IF args.vary_seeds_z THEN iz * Len(run.xs) * Len(run.ys) ELSE 0)

\* the seed of the clone when it goes to the renderer (cell, lines 1313-1320),
\* from its seed after the three apply-functions
CellSeed(seed, ix, iy, iz) ==
    LET xdim == IF args.vary_seeds_x THEN Len(run.xs) ELSE 1
        ydim == IF args.vary_seeds_y THEN Len(run.ys) ELSE 1
    IN  seed + (IF args.vary_seeds_x THEN ix ELSE 0)
             + (IF args.vary_seeds_y THEN iy * xdim ELSE 0)
             + (IF args.vary_seeds_z THEN iz * xdim * ydim ELSE 0)

\* processing.create_infotext for the grid at grid_infotext[k]
GridInfotext(k, vals, r) == [kind |-> "infotext", grid |-> k, of |-> vals, req |-> r]

\* the same call with no except clause around it: the exception escapes
TryRenderUnguarded(clone, ovr, vals, at, raises) ==
    IF raises
    THEN [raised |-> TRUE, res |-> EmptyProcessed(p)]
    ELSE [raised |-> FALSE, res |-> Rendered(clone, ovr, vals, at)]

\* the try statement of cell (lines 1322-1403): process_images(pc) returns
\* its result, or raises and the except clause makes a result without images
TryRender(clone, ovr, vals, at, raises) ==
    IF raises
    THEN [raised |-> FALSE, res |-> EmptyProcessed(p)]
    ELSE [raised |-> FALSE, res |-> Rendered(clone, ovr, vals, at)]

\* a cell that composes the infotext of its slice grid, and of the top-level
\* grid in the first slice, whatever was composed before and wherever it is
GridInfotextsPerCell(gi, vals, at, req) ==
    LET iz == at[3]
        sub == [gi EXCEPT ![(1 + iz) + 1] = GridInfotext(1 + iz, vals, req)]
        top == IF iz = 0 THEN [sub EXCEPT ![1] = GridInfotext(0, vals, req)] ELSE sub
    IN  [grid_infotext |-> top,
         calls |-> <<GridInfotext(1 + iz, vals, req)>>
                   \o (IF iz = 0 THEN <<GridInfotext(0, vals, req)>> ELSE << >>)]

\* the end of cell (lines 1405-1439): grid_infotext as the cell at
\* <<ix, iy, iz>> leaves it, and the calls of processing.create_infotext it
\* makes
GridInfotexts(gi, vals, at, req) ==
    LET iz == at[3]
        first == at[1] = 0 /\ at[2] = 0
        doSub == gi[(1 + iz) + 1] = None /\ first
        sub == IF doSub
               THEN [gi EXCEPT ![(1 + iz) + 1] = GridInfotext(1 + iz, vals, req)]
               ELSE gi
        doTop == sub[1] = None /\ first /\ iz = 0
        top == IF doTop THEN [sub EXCEPT ![1] = GridInfotext(0, vals, req)] ELSE sub
    IN  [grid_infotext |-> top,
         calls |-> (IF doSub THEN <<GridInfotext(1 + iz, vals, req)>> ELSE << >>)
                   \o (IF doTop THEN <<GridInfotext(0, vals, req)>> ELSE << >>)]

\* which of the three apply-functions of cell raises, if any: they run on the
\* clone in the order x, y, z, each on what the one before left
ApplyFails(x, y, z) ==
    LET rx == ApplyReq(args.x_opt, p, x, run.xs)
        ry == ApplyReq(args.y_opt, rx, y, run.ys)
    IN  IF ApplyRaises(args.x_opt, p, run.xs) THEN "x"
        ELSE IF ApplyRaises(args.y_opt, rx, run.ys) THEN "y"
        ELSE IF ApplyRaises(args.z_opt, ry, run.zs) THEN "z"
        ELSE "none"

\* a cell that treats the exception of an apply-function as it treats one of
\* the renderer: it returns a result without images
ApplyErrorTolerated(ovr) ==
    [res |-> EmptyProcessed(p), raised |-> FALSE, error |-> "none",
     apply_error |-> TRUE, override_settings |-> ovr,
     grid_infotext |-> run.grid_infotext, infotexts |-> << >>,
     polled |-> FALSE, log |-> << >>]

\* cell when an apply-function raises, the dict being ovr by then: lines
\* 1309-1311 are outside the try statement, the exception leaves cell
ApplyErrorEscapes(ovr) ==
    [res |-> EmptyProcessed(p), raised |-> TRUE, error |-> "RuntimeError",
     apply_error |-> TRUE, override_settings |-> ovr,
     grid_infotext |-> run.grid_infotext, infotexts |-> << >>,
     polled |-> FALSE, log |-> << >>]

\* cell(x, y, z, ix, iy, iz), where the renderer raises or not: the result,
\* the exception that leaves it, the dict and the grid infotexts it leaves,
\* whether the poll of the flags stopped it, and the call of the renderer it
\* made
Cell(x, y, z, ix, iy, iz, raises) ==
    IF state.interrupted \/ state.stopping_generation
    THEN [res |-> EmptyProcessed(p), raised |-> FALSE, error |-> "none",
          apply_error |-> FALSE, override_settings |-> override_settings,
          grid_infotext |-> run.grid_infotext, infotexts |-> << >>,
          polled |-> TRUE, log |-> << >>]
    ELSE IF ApplyFails(x, y, z) # "none"
    THEN \* apply_prompt raises: the apply-functions before it have run
         LET ox == ApplyOverride(args.x_opt, override_settings, x)
             oy == ApplyOverride(args.y_opt, ox, y)
             failed == ApplyFails(x, y, z)
         IN  ApplyErrorEscapes(IF failed = "x" THEN override_settings
                               ELSE IF failed = "y" THEN ox ELSE oy)
    ELSE LET rx == ApplyReq(args.x_opt, p, x, run.xs)
             ry == ApplyReq(args.y_opt, rx, y, run.ys)
             rz == ApplyReq(args.z_opt, ry, z, run.zs)
             ox == ApplyOverride(args.x_opt, override_settings, x)
             oy == ApplyOverride(args.y_opt, ox, y)
             oz == ApplyOverride(args.z_opt, oy, z)
             clone == [rz EXCEPT !.seed = CellSeed(rz.seed, ix, iy, iz)]
             infos == GridInfotexts(run.grid_infotext, <<x, y, z>>, <<ix, iy, iz>>,
                                    Request(clone, oz))
             try == TryRender(clone, oz, <<x, y, z>>, <<ix, iy, iz>>, raises)
         IN  [res |-> try.res,
              raised |-> try.raised,
              error |-> IF try.raised THEN "RendererError" ELSE "none",
              apply_error |-> FALSE,
              override_settings |-> oz,
              grid_infotext |-> infos.grid_infotext, infotexts |-> infos.calls,
              polled |-> FALSE,
              log |-> << [op |-> "process_images", at |-> <<ix, iy, iz>>,
                          of |-> <<x, y, z>>, chunk |-> run.chunk_idx,
                          applied |-> rz.seed, seed |-> clone.seed,
                          raised |-> raises] >>]

\* the history after a call of cell
AfterCell(r, ix, iy, iz, raises) ==
    [h EXCEPT !.log = @ \o r.log,
              !.cells = Append(@, [at |-> <<ix, iy, iz>>, chunk |-> run.chunk_idx,
                                   rendered |-> r.log # << >>,
                                   apply_error |-> r.apply_error]),
              !.infotexts = @ \o r.infotexts,
              !.failures = IF raises THEN @ + 1 ELSE @,
              !.observed = @ \/ r.polled]

(* ---------------- draw_xyz_grid ---------------- *)

ListSize == Len(g.xs) * Len(g.ys) * Len(g.zs)

\* a flat index that takes the row stride from the y axis
IndexByRows(ix, iy, iz) == ix + iy * Len(g.ys) + iz * Len(g.xs) * Len(g.ys)

\* index(ix, iy, iz) of process_cell
Index(ix, iy, iz) == ix + iy * Len(g.xs) + iz * Len(g.xs) * Len(g.ys)

\* the cell the loop nest of draw_xyz_grid visits next
NextCell ==
    NthCell(LoopNest(run.first_axes_processed, run.second_axes_processed),
            [x |-> Len(g.xs), y |-> Len(g.ys), z |-> Len(g.zs)], g.n)

\* processed_result after process_cell has stored the result of a cell
StoreCell(processed, idx) ==
    LET pr == IF g.processed_result = None
              THEN [processed EXCEPT !.images = Repeat(None, ListSize),
                                     !.all_prompts = Repeat(None, ListSize),
                                     !.all_seeds = Repeat(None, ListSize),
                                     !.infotexts = Repeat(None, ListSize)]
              ELSE g.processed_result
        first == pr.images[1]
    IN  IF processed.images # << >>
        THEN [pr EXCEPT !.images[idx + 1] = processed.images[1],
                        !.all_prompts[idx + 1] = processed.prompt,
                        !.all_seeds[idx + 1] = processed.seed,
                        !.infotexts[idx + 1] = processed.infotexts[1]]
        ELSE [pr EXCEPT !.images[idx + 1] =
                 IF first # None THEN Blank(first.mode, first.size)
                 ELSE Blank("P", <<pr.width, pr.height>>)]

\* a process_cell that leaves the loop nest at the cell whose rendering
\* failed, so that the cell is rendered again
ProcessResultRetrying(r, c, raises) ==
    LET idx == Index(c.x, c.y, c.z)
    IN  /\ raises => (r.log # << >> /\ h.failures < world.failures)
        /\ h' = AfterCell(r, c.x, c.y, c.z, raises)
        /\ override_settings' = r.override_settings
        /\ IF r.raised
           THEN /\ run' = [run EXCEPT !.error = r.error]
                /\ pc' = "exit"
                /\ g' = g
           ELSE /\ run' = [run EXCEPT !.grid_infotext = r.grid_infotext]
                /\ pc' = pc
                /\ g' = IF raises THEN g
                        ELSE [g EXCEPT !.n = @ + 1,
                                       !.processed_result = StoreCell(r.res, idx),
                                       !.writes[idx + 1] = @ + 1]
        /\ UNCHANGED <<args, world, p, state>>

\* process_cell for the cell c, cell having returned or raised as r tells:
\* the result is stored at its index.  An exception that leaves cell ends
\* draw_xyz_grid and run.
ProcessResult(r, c, raises) ==
    LET idx == Index(c.x, c.y, c.z)
    IN  /\ raises => (r.log # << >> /\ h.failures < world.failures)
        /\ h' = AfterCell(r, c.x, c.y, c.z, raises)
        /\ override_settings' = r.override_settings
        /\ IF r.raised
           THEN /\ run' = [run EXCEPT !.error = r.error]
                /\ pc' = "exit"
                /\ g' = g
           ELSE /\ run' = [run EXCEPT !.grid_infotext = r.grid_infotext]
                /\ pc' = pc
                /\ g' = [g EXCEPT !.n = @ + 1,
                                  !.processed_result = StoreCell(r.res, idx),
                                  !.writes[idx + 1] = @ + 1]
        /\ UNCHANGED <<args, world, p, state>>

\* cell for the next cell of the loop nest, where the renderer raises or not
NextResult(raises) ==
    LET c == NextCell
    IN  Cell(g.xs[c.x + 1], g.ys[c.y + 1], g.zs[c.z + 1], c.x, c.y, c.z, raises)

\* one turn of the loop nest: process_cell for the next cell
ProcessCell ==
    /\ pc = "cells"
    /\ g.n < ListSize
    /\ \E raises \in BOOLEAN : ProcessResult(NextResult(raises), NextCell, raises)

\* Processed(p, []), which draw_xyz_grid returns when it has nothing to compose
EmptyResult == [EmptyProcessed(p) EXCEPT !.seed = [kind |-> "seed", v |-> -1]]

\* any(processed_result.images)
AnyImage(imgs) == \E k \in 1..Len(imgs) : imgs[k] # None

\* lines 574-585: after the loop nest, draw_xyz_grid returns an empty result
\* or goes on to compose the grids
CheckResult ==
    /\ pc = "cells"
    /\ g.n = ListSize
    /\ IF g.processed_result = None
       THEN /\ h' = [h EXCEPT !.ret = EmptyResult]
            /\ pc' = "returned"
       ELSE IF ~AnyImage(g.processed_result.images)
       THEN /\ h' = [h EXCEPT !.ret = EmptyResult]
            /\ pc' = "returned"
       ELSE /\ h' = h
            /\ pc' = "compose"
    /\ UNCHANGED <<args, world, p, override_settings, state, run, g>>

\* the insertion of a slice grid that is built from the cells of the first
\* slice, whatever the slice
InsertSliceOfFirstBlock(pr, i) ==
    LET start_index == i
        end_index == start_index + Len(g.xs) * Len(g.ys)
        grid == ImageGrid(Slice(pr.images, start_index, end_index), Len(g.ys))
    IN  [pr EXCEPT !.images = Insert(@, i, grid),
                   !.all_prompts = Insert(@, i, @[start_index + 1]),
                   !.all_seeds = Insert(@, i, @[start_index + 1]),
                   !.infotexts = Insert(@, i, @[start_index + 1])]

\* the insertion of a slice grid whose rows are counted by the x axis
InsertSliceRowsByX(pr, i) ==
    LET start_index == (i * Len(g.xs) * Len(g.ys)) + i
        end_index == start_index + Len(g.xs) * Len(g.ys)
        grid == ImageGrid(Slice(pr.images, start_index, end_index), Len(g.xs))
    IN  [pr EXCEPT !.images = Insert(@, i, grid),
                   !.all_prompts = Insert(@, i, @[start_index + 1]),
                   !.all_seeds = Insert(@, i, @[start_index + 1]),
                   !.infotexts = Insert(@, i, @[start_index + 1])]

\* the insertion of a slice grid that takes no account of the grids inserted
\* before it
InsertSliceUnshifted(pr, i) ==
    LET start_index == i * Len(g.xs) * Len(g.ys)
        end_index == start_index + Len(g.xs) * Len(g.ys)
        grid == ImageGrid(Slice(pr.images, start_index, end_index), Len(g.ys))
    IN  [pr EXCEPT !.images = Insert(@, i, grid),
                   !.all_prompts = Insert(@, i, @[start_index + 1]),
                   !.all_seeds = Insert(@, i, @[start_index + 1]),
                   !.infotexts = Insert(@, i, @[start_index + 1])]

\* processed_result after the turn i of the loop at lines 587-611: the grid of
\* slice i is built and inserted, with the metadata of its first cell
InsertSlice(pr, i) ==
    LET start_index == (i * Len(g.xs) * Len(g.ys)) + i
        end_index == start_index + Len(g.xs) * Len(g.ys)
        grid == ImageGrid(Slice(pr.images, start_index, end_index), Len(g.ys))
    IN  [pr EXCEPT !.images = Insert(@, i, grid),
                   !.all_prompts = Insert(@, i, @[start_index + 1]),
                   !.all_seeds = Insert(@, i, @[start_index + 1]),
                   !.infotexts = Insert(@, i, @[start_index + 1])]

ComposeSlice ==
    /\ pc = "compose"
    /\ g.i < Len(g.zs)
    /\ g' = [g EXCEPT !.i = @ + 1,
                      !.processed_result = InsertSlice(g.processed_result, g.i)]
    /\ UNCHANGED <<args, world, p, override_settings, state, pc, run, h>>

\* a top-level grid that is put behind the other images
InsertTopLast(pr) ==
    LET z_count == Len(g.zs)
        z_grid == ImageGrid(Slice(pr.images, 0, z_count), 1)
    IN  [pr EXCEPT !.images = Append(@, z_grid),
                   !.infotexts = Insert(@, 0, @[1])]

\* processed_result after lines 613-626: the top-level grid is built from the
\* slice grids and inserted at position 0
InsertTop(pr) ==
    LET z_count == Len(g.zs)
        z_grid == ImageGrid(Slice(pr.images, 0, z_count), 1)
    IN  [pr EXCEPT !.images = Insert(@, 0, z_grid),
                   !.infotexts = Insert(@, 0, @[1])]

\* lines 613-628: the top-level grid, and draw_xyz_grid returns
ComposeTop ==
    /\ pc = "compose"
    /\ g.i = Len(g.zs)
    /\ g' = [g EXCEPT !.processed_result = InsertTop(g.processed_result)]
    /\ h' = [h EXCEPT !.ret = InsertTop(g.processed_result)]
    /\ pc' = "returned"
    /\ UNCHANGED <<args, world, p, override_settings, state, run>>

(* ---------------- run, after draw_xyz_grid ---------------- *)

\* the four parallel lists of a result
\* lines 1693-1743: what run keeps of one list of the composed result
Trim(l, z_count, lone, sub) ==
    IF lone
    THEN <<l[1]>> \o (IF sub THEN Slice(l, 1, z_count + 1) ELSE << >>)
                  \o SliceFrom(l, z_count + 1)
    ELSE IF sub THEN Slice(l, 0, z_count + 1)
    ELSE <<l[1]>>

\* lines 1628-1745: run shapes the result of the unchunked grid and returns it
PostGrid ==
    /\ pc = "returned"
    /\ run.mode = "grid"
    /\ LET processed == h.ret
           z_count == Len(run.zs)
           infos == Slice(run.grid_infotext, 0, 1 + z_count)
                        \o SliceFrom(processed.infotexts, 1 + z_count)
           lone == run.include_lone_images
           sub == run.include_sub_grids
       IN  run' = [run EXCEPT !.result =
                IF processed.images = << >> THEN processed
                ELSE [processed EXCEPT
                        !.images = Trim(@, z_count, lone, sub),
                        !.infotexts = Trim(infos, z_count, lone, sub),
                        !.all_prompts = Trim(@, z_count, lone, sub),
                        !.all_seeds = Trim(@, z_count, lone, sub)]]
    /\ pc' = "exit"
    /\ UNCHANGED <<args, world, p, override_settings, state, g, h>>

\* lines 1497-1525: what run keeps of one list of a chunk's result
ChunkTrim(l, z_count, lone) ==
    IF lone THEN <<l[1]>> \o SliceFrom(l, z_count + 1) ELSE <<l[1]>>

\* lines 1543-1558: final_processed after the chunk at chunk_idx.  For the
\* first chunk final_processed is the object chunk_processed, whose lists
\* line 1555-1558 then replace by empty ones.
MergeChunk(final, chunk_processed, chunk_idx) ==
    IF chunk_idx = 0
    THEN [chunk_processed EXCEPT !.images = << >>, !.all_prompts = << >>,
                                 !.all_seeds = << >>, !.infotexts = << >>]
    ELSE [final EXCEPT !.images = @ \o chunk_processed.images,
                       !.all_prompts = @ \o chunk_processed.all_prompts,
                       !.all_seeds = @ \o chunk_processed.all_seeds,
                       !.infotexts = @ \o chunk_processed.infotexts]

\* lines 1497-1562: run shapes the result of a chunk, adds it to the final
\* result and starts the next chunk or returns
ChunkPost ==
    /\ pc = "returned"
    /\ run.mode = "chunked"
    /\ IF h.ret.images = << >>
       THEN \* chunk_processed.images[0]
            /\ run' = [run EXCEPT !.error = "IndexError"]
            /\ pc' = "exit"
            /\ UNCHANGED <<g, h>>
       ELSE LET z_count == Len(g.zs)
                lone == run.include_lone_images
                chunk_processed ==
                    [h.ret EXCEPT !.images = ChunkTrim(@, z_count, lone),
                                  !.infotexts = ChunkTrim(@, z_count, lone),
                                  !.all_prompts = ChunkTrim(@, z_count, lone),
                                  !.all_seeds = ChunkTrim(@, z_count, lone)]
                final == MergeChunk(run.final_processed, chunk_processed,
                                    run.chunk_idx)
                last == run.chunk_idx + 1 = Len(run.chunks)
            IN  /\ h' = [h EXCEPT !.chunk_out = Append(@, chunk_processed)]
                /\ IF last
                   THEN /\ run' = [run EXCEPT !.final_processed = final,
                                              !.result = final]
                        /\ pc' = "exit"
                        /\ g' = g
                   ELSE /\ run' = [run EXCEPT !.final_processed = final,
                                              !.chunk_idx = @ + 1]
                        /\ pc' = "cells"
                        /\ g' = ChunkFrame(run, run.chunks[run.chunk_idx + 2])
    /\ UNCHANGED <<args, world, p, override_settings, state>>

\* lines 1576-1590: one turn of the innermost loop of the skip-grid mode, at
\* the cell with the flat index run.n
SkipCell ==
    /\ pc = "skip"
    /\ run.n < Len(run.xs) * Len(run.ys) * Len(run.zs)
    /\ LET nx == Len(run.xs)
           ix == run.n % nx
           iy == (run.n \div nx) % Len(run.ys)
           iz == run.n \div (nx * Len(run.ys))
       IN  IF state.interrupted
           THEN \* break: the rest of this row of X is left out
                /\ run' = [run EXCEPT !.n = ((@ \div nx) + 1) * nx]
                /\ h' = [h EXCEPT !.observed = TRUE]
                /\ pc' = pc
                /\ UNCHANGED override_settings
           ELSE \E raises \in BOOLEAN :
                \E r \in {Cell(run.xs[ix + 1], run.ys[iy + 1], run.zs[iz + 1],
                               ix, iy, iz, raises)} :
                LET proc == r.res
                    processed == run.processed
                IN  /\ raises => (r.log # << >> /\ h.failures < world.failures)
                    /\ h' = AfterCell(r, ix, iy, iz, raises)
                    /\ override_settings' = r.override_settings
                    /\ IF r.raised
                       THEN /\ run' = [run EXCEPT !.error = r.error]
                            /\ pc' = "exit"
                       ELSE /\ pc' = pc
                            /\ run' = [run EXCEPT
                                 !.grid_infotext = r.grid_infotext,
                                 !.n = @ + 1,
                                 !.processed =
                                    IF proc.images # << >>
                                    THEN [processed EXCEPT
                                            !.images = @ \o proc.images,
                                            !.infotexts = @ \o proc.infotexts,
                                            !.all_prompts = @ \o proc.all_prompts,
                                            !.all_seeds = @ \o proc.all_seeds]
                                    ELSE processed]
    /\ UNCHANGED <<args, world, p, state, g>>

\* lines 1592-1607: the skip-grid mode returns the images it has
SkipReturn ==
    /\ pc = "skip"
    /\ run.n >= Len(run.xs) * Len(run.ys) * Len(run.zs)
    /\ run' = [run EXCEPT !.result = run.processed]
    /\ pc' = "exit"
    /\ UNCHANGED <<args, world, p, override_settings, state, g, h>>

(* ---------------- the resource scope ---------------- *)

\* an exit that reloads the model weights only
RestoreModelOnly ==
    << [op |-> "reload_model_weights"] >>

\* what SharedSettingsStackHelper.__exit__ calls
RestoreCalls ==
    << [op |-> "reload_model_weights"], [op |-> "reload_vae_weights"] >>

\* the with block is left, by return or by an exception
ExitScope ==
    /\ pc = "exit"
    /\ h' = [h EXCEPT !.log = @ \o RestoreCalls]
    /\ pc' = "done"
    /\ UNCHANGED <<args, world, p, override_settings, state, run, g>>

(* ---------------- the environment ---------------- *)

Sweeping == pc \in {"cells", "skip"}

\* the user presses Interrupt
Interrupt ==
    /\ Sweeping
    /\ h.flagEvents < world.flag_events
    /\ ~state.interrupted
    /\ state' = [state EXCEPT !.interrupted = TRUE]
    /\ h' = [h EXCEPT !.flagEvents = @ + 1]
    /\ UNCHANGED <<args, world, p, override_settings, pc, run, g>>

\* the user presses Skip / stop generating
StopGeneration ==
    /\ Sweeping
    /\ h.flagEvents < world.flag_events
    /\ ~state.stopping_generation
    /\ state' = [state EXCEPT !.stopping_generation = TRUE]
    /\ h' = [h EXCEPT !.flagEvents = @ + 1]
    /\ UNCHANGED <<args, world, p, override_settings, pc, run, g>>

\* the owner of shared.state resets the flags
ClearFlags ==
    /\ Sweeping
    /\ h.flagEvents < world.flag_events
    /\ state.interrupted \/ state.stopping_generation
    /\ state' = [interrupted |-> FALSE, stopping_generation |-> FALSE]
    /\ h' = [h EXCEPT !.flagEvents = @ + 1]
    /\ UNCHANGED <<args, world, p, override_settings, pc, run, g>>

Next ==
    \/ Setup
    \/ ProcessCell
    \/ CheckResult
    \/ ComposeSlice
    \/ ComposeTop
    \/ PostGrid
    \/ ChunkPost
    \/ SkipCell
    \/ SkipReturn
    \/ ExitScope
    \/ Interrupt
    \/ StopGeneration
    \/ ClearFlags

Spec == Init /\ [][Next]_vars

(* ---------------- what the claims speak of ---------------- *)

\* the calls of the renderer in a log
Renders(log) ==
    LET IsRender(e) == e.op = "process_images" IN SelectSeq(log, IsRender)

\* the calls of the restore functions in a log
Restores(log) ==
    LET IsRestore(e) == e.op # "process_images" IN SelectSeq(log, IsRestore)

\* the calls of cell, and of the renderer, that the current call of
\* draw_xyz_grid has made
FrameCells ==
    LET Here(c) == c.chunk = run.chunk_idx IN SelectSeq(h.cells, Here)

FrameRenders ==
    LET Here(e) == e.op = "process_images" /\ e.chunk = run.chunk_idx
    IN  SelectSeq(h.log, Here)

\* the loop nest of draw_xyz_grid has just ended
LoopEnded == pc = "cells" /\ g.n = ListSize

\* draw_xyz_grid has just returned a composed result
Composed == pc = "returned" /\ h.ret.images # << >>

\* the renderer returned an image for the cell at <<ix, iy, iz>> of this frame
RenderedOk(at) ==
    \E k \in 1..Len(FrameRenders) :
        FrameRenders[k].at = at /\ ~FrameRenders[k].raised

\* the renderer raised for the cell at <<ix, iy, iz>> of this frame
RenderFailed(at) ==
    \E k \in 1..Len(FrameRenders) :
        FrameRenders[k].at = at /\ FrameRenders[k].raised

FrameCoords ==
    (0..(Len(g.xs) - 1)) \X (0..(Len(g.ys) - 1)) \X (0..(Len(g.zs) - 1))

\* the flat slot ix + iy*nx + iz*nx*ny of the cell at <<ix, iy, iz>>
Slot(at) == at[1] + at[2] * Len(g.xs) + at[3] * Len(g.xs) * Len(g.ys)

SameLengths(r) ==
    /\ Len(r.images) = Len(r.infotexts)
    /\ Len(r.images) = Len(r.all_prompts)
    /\ Len(r.images) = Len(r.all_seeds)

(* C1: after the cell loop, after every insertion of a slice grid, after the
   insertion of the top-level grid and after the trimming in run, chunked or
   not, the lists images, infotexts, all_prompts and all_seeds of the result
   have the same length. *)
C1_ListsSameLength ==
    /\ (pc = "compose" \/ LoopEnded) /\ g.processed_result # None
            => SameLengths(g.processed_result)
    /\ pc = "returned" => SameLengths(h.ret)
    /\ h.chunk_out # << >> => SameLengths(h.chunk_out[Len(h.chunk_out)])
    /\ run.result # None => SameLengths(run.result)

(* C2: when the renderer raises for a cell, cell returns a result without
   images, the exception does not leave the sweep, every cell of the product
   is still attempted, and the failed cell is a blank placeholder in the
   result and in the grid of its slice. *)
C2_RendererFailureTolerated ==
    /\ run.error # "RendererError"
    /\ LoopEnded =>
        /\ Len(FrameCells) = Len(g.xs) * Len(g.ys) * Len(g.zs)
        /\ \A at \in FrameCoords :
              RenderFailed(at) =>
                  g.processed_result.images[Slot(at) + 1].kind = "blank"
    /\ Composed =>
          \A at \in FrameCoords :
              RenderFailed(at) =>
                  h.ret.images[1 + at[3] + 1].cells[at[1] + at[2] * Len(g.xs) + 1].kind
                      = "blank"
    /\ (run.mode = "skip" /\ pc = "exit" /\ ~h.observed /\ run.error = "none") =>
          Len(h.cells) = Len(run.xs) * Len(run.ys) * Len(run.zs)

\* a cell failed and a later cell of the same grid was rendered
C2_Witness ==
    /\ Composed
    /\ \E i, j \in 1..Len(FrameRenders) :
          i < j /\ FrameRenders[i].raised /\ ~FrameRenders[j].raised

(* C3: in a grid sweep, whatever the nesting order, cell is called exactly
   once for every (ix, iy, iz), nx*ny*nz times in all, and its result is
   stored at slot ix + iy*nx + iz*nx*ny: every slot is written exactly once. *)
C3_EveryCellOnceAtItsSlot ==
    LoopEnded =>
        /\ Len(FrameCells) = Len(g.xs) * Len(g.ys) * Len(g.zs)
        /\ \A at \in FrameCoords :
              /\ Cardinality({ k \in 1..Len(FrameCells) : FrameCells[k].at = at }) = 1
              /\ g.writes[Slot(at) + 1] = 1
              /\ LET img == g.processed_result.images[Slot(at) + 1]
                 IN  /\ img.kind = "image" => img.at = at
                     /\ RenderedOk(at) => img.kind = "image"

\* a 2 x 2 x 2 grid has been swept with Y outermost and X innermost
C3_Witness ==
    /\ LoopEnded
    /\ Len(g.xs) = 2 /\ Len(g.ys) = 2 /\ Len(g.zs) = 2
    /\ run.first_axes_processed = "y" /\ run.second_axes_processed = "z"
    /\ \A at \in FrameCoords : RenderedOk(at)

\* what the cell at <<ix, iy, iz>> of a grid is, told from the axis values,
\* the template request and the outcome of the cell's call alone: the image
\* rendered from the request with the three values applied, or a placeholder
\* shaped after the image of cell (0, 0, 0)
ExpectedCell(at) ==
    LET x == g.xs[at[1] + 1]
        y == g.ys[at[2] + 1]
        z == g.zs[at[3] + 1]
        rz == ApplyReq(args.z_opt,
                       ApplyReq(args.y_opt, ApplyReq(args.x_opt, p, x, run.xs), y, run.ys),
                       z, run.zs)
        o0 == [sd_model_checkpoint |-> 0, fp8_storage |-> 0]
        oz == ApplyOverride(args.z_opt,
                  ApplyOverride(args.y_opt, ApplyOverride(args.x_opt, o0, x), y), z)
        clone == [rz EXCEPT !.seed = CellSeed(rz.seed, at[1], at[2], at[3])]
    IN  IF RenderedOk(at)
        THEN [kind |-> "image", of |-> <<x, y, z>>, at |-> at,
              req |-> Request(clone, oz), nth |-> 0, mode |-> "RGB",
              size |-> <<p.width, p.height>>]
        ELSE Blank(IF RenderedOk(<<0, 0, 0>>) THEN "RGB" ELSE "P",
                   <<p.width, p.height>>)

\* the images of the composed result: the grid of the slice grids, the grid
\* of every Z slice, and the cells in slot order
ExpectedImages ==
    LET nx == Len(g.xs)
        ny == Len(g.ys)
        nz == Len(g.zs)
        flat == [k \in 1..(nx * ny * nz) |->
                    ExpectedCell(<<(k - 1) % nx, ((k - 1) \div nx) % ny,
                                   (k - 1) \div (nx * ny)>>)]
        subs == [i \in 1..nz |->
                    ImageGrid(Slice(flat, (i - 1) * nx * ny, i * nx * ny), ny)]
    IN  << ImageGrid(subs, 1) >> \o subs \o flat

(* C4: the images draw_xyz_grid returns (cell images in slot order, the grid
   of every Z slice, the top-level grid) are a function of the axis values,
   the request and the cells' outcomes only: they are the same whichever of
   the six nesting orders the planner chose. *)
C4_ResultIndependentOfOrder ==
    Composed => h.ret.images = ExpectedImages

\* a 2 x 2 x 2 grid with a failed cell was composed after a sweep with X
\* outermost and Y innermost
C4_Witness ==
    /\ Composed
    /\ Len(g.xs) = 2 /\ Len(g.ys) = 2 /\ Len(g.zs) = 2
    /\ run.first_axes_processed = "x" /\ run.second_axes_processed = "z"
    /\ \E at \in FrameCoords : RenderFailed(at)

\* the cost of the axis type selected for an axis
AxisCost(a) ==
    Cost(IF a = "x" THEN args.x_opt ELSE IF a = "y" THEN args.y_opt ELSE args.z_opt)

\* the loop level of an axis in the nest the planner chose: 1 is outermost
Depth(a) ==
    LET nest == LoopNest(run.first_axes_processed, run.second_axes_processed)
    IN  CHOOSE k \in 1..3 : nest[k] = a

\* how often the value of an axis changed between consecutive calls of cell
Changes(a) ==
    LET k == IF a = "x" THEN 1 ELSE IF a = "y" THEN 2 ELSE 3
    IN  Cardinality({ i \in 1..(Len(FrameCells) - 1) :
                        FrameCells[i].at[k] # FrameCells[i + 1].at[k] })

(* C5: an axis whose cost is strictly the highest is the outermost loop, and
   of the other two the one of higher cost is the second loop; when no axis
   has strictly the highest cost, Z is the outermost loop and Y the second. *)
C5_PlannerRule ==
    h.entered =>
        LET first == run.first_axes_processed
            second == run.second_axes_processed
            Top(a) == \A b \in Axes \ {a} : AxisCost(a) > AxisCost(b)
        IN  IF \E a \in Axes : Top(a)
            THEN /\ Top(first)
                 /\ second \in Axes \ {first}
                 /\ \A b \in Axes \ {first} : AxisCost(second) >= AxisCost(b)
            ELSE first = "z" /\ second = "y"

\* the sweep runs with Y outermost, X second and Z innermost, Y being the
\* most expensive axis and X more expensive than Z
C5_Witness ==
    /\ h.entered /\ pc = "cells" /\ g.n > 0
    /\ AxisCost("y") > AxisCost("x") /\ AxisCost("x") > AxisCost("z")
    /\ run.first_axes_processed = "y" /\ run.second_axes_processed = "x"

(* C6: no axis is in a more inner loop than an axis of strictly lower cost,
   so that during a sweep an axis of strictly higher cost changes value
   between consecutive cells no more often than a cheaper one. *)
C6_ExpensiveAxisNeverInside ==
    (LoopEnded /\ ListSize > 0) =>
        \A a, b \in Axes :
            AxisCost(a) < AxisCost(b) =>
                /\ Depth(b) <= Depth(a)
                /\ Changes(b) <= Changes(a)

(* C7: once a poll of the interruption flags has seen a flag set, the
   renderer is not called again in that run, in the grid, the chunked and the
   skip-grid mode, whatever the flags do afterwards. *)
C7_NoRenderAfterObservedFlag ==
    [][h.observed => Renders(h'.log) = Renders(h.log)]_vars

\* the restore the claims speak of: the model weights, then the VAE weights
TheRestore == << [op |-> "reload_model_weights"], [op |-> "reload_vae_weights"] >>

(* C8, as stated: every call of run executes reload_model_weights and then
   reload_vae_weights exactly once, however it ends, and the renderer is not
   called after them. *)
C8_RestoreOncePerRun ==
    /\ pc = "done" => Restores(h.log) = TheRestore
    /\ \A i, j \in 1..Len(h.log) :
          (i < j /\ h.log[i].op # "process_images") => h.log[j].op # "process_images"

(* C8, amended: every call of run that passes the parsing of the axes and the
   size guard, and so enters the with block, executes reload_model_weights and
   then reload_vae_weights exactly once, when the block is left by return, by
   an exception or after an interruption; they are the last calls of the run,
   no renderer call follows them, and a run that does not enter the block
   executes neither. *)
C8_RestoreOncePerScope ==
    /\ (pc = "done" /\ h.entered) =>
          /\ Restores(h.log) = TheRestore
          /\ Len(h.log) >= 2
          /\ SliceFrom(h.log, Len(h.log) - 2) = TheRestore
    /\ (pc # "done" \/ ~h.entered) => Restores(h.log) = << >>

\* a run that rendered cells and was then interrupted has ended, and the two
\* restore calls were its last
C8_Witness ==
    /\ pc = "done" /\ h.entered
    /\ h.observed
    /\ Renders(h.log) # << >>
    /\ SliceFrom(h.log, Len(h.log) - 2) = TheRestore

\* the seed offset of the cell at <<ix, iy, iz>> under the vary-seed flags
SeedOffset(at) ==
    LET xDim == IF args.vary_seeds_x THEN Len(run.xs) ELSE 1
        yDim == IF args.vary_seeds_y THEN Len(run.ys) ELSE 1
    IN  (IF args.vary_seeds_x THEN at[1] ELSE 0)
        + (IF args.vary_seeds_y THEN at[2] * xDim ELSE 0)
        + (IF args.vary_seeds_z THEN at[3] * xDim * yDim ELSE 0)

(* C9: the seed the renderer is called with for the cell (ix, iy, iz) is the
   clone's seed after the three apply-functions, plus ix if vary-X, plus
   iy*xDim if vary-Y, plus iz*xDim*yDim if vary-Z, where xDim is |X| under
   vary-X and 1 otherwise and yDim is |Y| under vary-Y and 1 otherwise.  With
   vary-X and vary-Z only and |X| = 4, cell (2, 1, 1) is rendered with the
   base seed plus 6. *)
C9_SeedVariation ==
    \A k \in 1..Len(h.log) :
        LET e == h.log[k]
        IN  e.op = "process_images" =>
              /\ e.seed = e.applied + SeedOffset(e.at)
              /\ (/\ args.vary_seeds_x /\ ~args.vary_seeds_y /\ args.vary_seeds_z
                  /\ Len(run.xs) = 4 /\ e.at = <<2, 1, 1>>)
                      => e.seed = e.applied + 6

\* with vary-X and vary-Z only and four values on the X axis, cell (2, 1, 1)
\* went to the renderer with the seed of the request plus 6
C9_Witness ==
    /\ args.vary_seeds_x /\ ~args.vary_seeds_y /\ args.vary_seeds_z
    /\ Len(run.xs) = 4
    /\ \E k \in 1..Len(h.log) :
          /\ h.log[k].op = "process_images"
          /\ h.log[k].at = <<2, 1, 1>>
          /\ h.log[k].applied = BaseSeed
          /\ h.log[k].seed = BaseSeed + 6

\* the concatenation of a list of the results of the chunks, in chunk order
RECURSIVE ChunkOutputs(_, _)
ChunkOutputs(list, k) ==
    IF k = 0 THEN << >>
    ELSE ChunkOutputs(list, k - 1) \o
         (IF list = "images" THEN h.chunk_out[k].images
          ELSE IF list = "infotexts" THEN h.chunk_out[k].infotexts
          ELSE IF list = "all_prompts" THEN h.chunk_out[k].all_prompts
          ELSE h.chunk_out[k].all_seeds)

(* C10: the result a chunked run returns holds the outputs of every chunk,
   concatenated in chunk order, with no chunk's entries missing. *)
C10_ChunksConcatenated ==
    (pc = "done" /\ run.mode = "chunked" /\ run.error = "none") =>
        /\ Len(h.chunk_out) = Len(run.chunks)
        /\ run.result.images = ChunkOutputs("images", Len(h.chunk_out))
        /\ run.result.infotexts = ChunkOutputs("infotexts", Len(h.chunk_out))
        /\ run.result.all_prompts = ChunkOutputs("all_prompts", Len(h.chunk_out))
        /\ run.result.all_seeds = ChunkOutputs("all_seeds", Len(h.chunk_out))

\* the cell of the whole sweep that a call of the renderer was made for: in
\* the chunked mode the index on the main axis counts from the start of the
\* chunk, which begins items_per_grid values after the chunk before it
GlobalAt(e) ==
    LET items == Max(1, args.items_per_grid)
        k == IF run.main_axis = "x" THEN 1 ELSE IF run.main_axis = "y" THEN 2 ELSE 3
    IN  IF run.mode = "chunked"
        THEN [e.at EXCEPT ![k] = @ + e.chunk * items]
        ELSE e.at

(* C11: in the chunked mode every cell goes to the renderer with the values,
   the request and the seed it has in the unchunked sweep of the same inputs;
   in particular its seed is the one cell computes from the cell's indices in
   the whole sweep, under every choice of the vary-seed flags. *)
C11_ChunkedCellsAsUnchunked ==
    run.mode = "chunked" =>
        \A k \in 1..Len(h.log) :
            LET e == h.log[k]
                at == GlobalAt(e)
            IN  e.op = "process_images" =>
                  /\ e.of = <<run.xs[at[1] + 1], run.ys[at[2] + 1], run.zs[at[3] + 1]>>
                  /\ e.seed = CellSeed(e.applied, at[1], at[2], at[3])

\* the values of the main axis, and the concatenation of the first k chunks
MainValues ==
    IF run.main_axis = "x" THEN run.xs
    ELSE IF run.main_axis = "y" THEN run.ys ELSE run.zs

RECURSIVE ChunksJoined(_)
ChunksJoined(k) ==
    IF k = 0 THEN << >> ELSE ChunksJoined(k - 1) \o run.chunks[k]

(* C12: an axis of L values is cut into ceil(L/n) chunks for the chunk size
   n >= 1; every chunk but the last has n values, the last between 1 and n,
   and the chunks joined in order are the value list of the axis.  L = 10
   and n = 4 give chunks of 4, 4 and 2 values. *)
C12_ChunksPartitionAxis ==
    run.mode = "chunked" =>
        LET L == Len(MainValues)
            n == Max(1, args.items_per_grid)
            count == Len(run.chunks)
        IN  /\ count * n >= L /\ (count - 1) * n < L
            /\ \A k \in 1..(count - 1) : Len(run.chunks[k]) = n
            /\ Len(run.chunks[count]) \in 1..n
            /\ ChunksJoined(count) = MainValues
            /\ (L = 10 /\ n = 4) =>
                  [k \in 1..count |-> Len(run.chunks[k])] = <<4, 4, 2>>

\* an axis of ten values has been cut into chunks of four and the sweep is at
\* the last of its three chunks
C12_Witness ==
    /\ run.mode = "chunked"
    /\ Len(MainValues) = 10 /\ args.items_per_grid = 4
    /\ Len(run.chunks) = 3 /\ run.chunk_idx = 2
    /\ Len(g.xs) = 2

(* C13: the apply-functions act on the clone of a cell only: no step of a run
   changes a field of the template request p, nor the override_settings
   collection the template holds. *)
C13_TemplateUnchanged ==
    [][p' = p /\ override_settings' = override_settings]_vars

\* the axis type, the raw values and the parsed values of an axis
OptOf(a) == IF a = "x" THEN args.x_opt ELSE IF a = "y" THEN args.y_opt ELSE args.z_opt
RawOf(a) == IF a = "x" THEN args.x_vals ELSE IF a = "y" THEN args.y_vals ELSE args.z_vals
ParsedOf(a) == IF a = "x" THEN run.xs ELSE IF a = "y" THEN run.ys ELSE run.zs

\* run has parsed its three axes and gone on to the sweep
Parsed == h.entered

(* C14: process_axis returns at least one value for every axis type and every
   raw specification: exactly one placeholder for a specification without
   values, and exactly one placeholder for the 'Nothing' axis whatever its
   input. *)
C14_AxisNeverEmpty ==
    Parsed =>
        \A a \in Axes :
            /\ Len(ParsedOf(a)) >= 1
            /\ RawOf(a) = << >> => Len(ParsedOf(a)) = 1
            /\ OptOf(a) = "Nothing" => Len(ParsedOf(a)) = 1

\* the axis types that declare a validator
Validated == {"Checkpoint name", "Refiner checkpoint"}

\* the calls of the validator of an axis
ConfirmCalls(a) == { k \in 1..Len(h.confirms) : h.confirms[k].axis = a }

\* a value of the axis is a string that its integer type does not take
CoercionFails(a) ==
    /\ OptOf(a) \in {"Seed", "Var. seed", "Steps", "CFG Scale"}
    /\ \E k \in 1..Len(RawOf(a)) : RawOf(a)[k].kind = "word"

\* the validator of the axis is given values that it rejects
ValidatorRejects(a) ==
    /\ OptOf(a) \in Validated
    /\ ~args.axes_ok
    /\ RawOf(a) # << >>

(* C15: when the coercion of a value of some axis fails, or the validator of
   some axis rejects its list, run ends with an error, without having entered
   the sweep and without any call of the renderer. A validator is never called
   twice for an axis, every call carries all the values of its axis, and a run
   that goes on to the sweep has called the validator of each axis that
   declares one exactly once and no other. *)
C15_InvalidAxisAbortsBeforeRender ==
    pc # "run" =>
        /\ (\E a \in Axes : CoercionFails(a) \/ ValidatorRejects(a)) =>
               /\ run.error \in {"ValueError", "RuntimeError"}
               /\ ~h.entered
               /\ Renders(h.log) = << >>
        /\ \A a \in Axes :
               /\ Cardinality(ConfirmCalls(a)) <= 1
               /\ \A k \in ConfirmCalls(a) :
                      /\ h.confirms[k].label = OptOf(a)
                      /\ h.confirms[k].xs = [j \in 1..Len(RawOf(a)) |-> RawOf(a)[j].v]
               /\ h.entered =>
                      Cardinality(ConfirmCalls(a)) = IF OptOf(a) \in Validated THEN 1 ELSE 0

\* the validator of the third axis has rejected a list of two values, after
\* two axes without a validator were parsed
C15_Witness ==
    /\ run.error = "RuntimeError"
    /\ ValidatorRejects("z")
    /\ Len(h.confirms) = 1
    /\ h.confirms[1].axis = "z"
    /\ Len(h.confirms[1].xs) = 2
    /\ Renders(h.log) = << >>

\* the three axes are parsed without an error
AxesParse ==
    \A a \in Axes : ProcessAxis(a, OptOf(a), RawOf(a)).error = "none"

\* the cells of the sweep
SweepCells ==
    Len(ProcessAxis("x", args.x_opt, args.x_vals).valslist)
        * Len(ProcessAxis("y", args.y_opt, args.y_vals).valslist)
        * Len(ProcessAxis("z", args.z_opt, args.z_vals).valslist)

\* the estimated output size exceeds the configured maximum: a cell has
\* width * height / 16 megapixels
EstimateExceeds == SweepCells * p.width * p.height > 16 * ImgMaxSizeMP

\* the size guard has rejected the sweep
GuardRejected == run.error = "AssertionError"

(* C16: once the axes are parsed, the size guard rejects the sweep exactly
   when cell count x width x height, in megapixels, exceeds the configured
   maximum, and it does so before any call of the renderer; a sweep whose
   estimate does not exceed the maximum is not rejected by the guard. *)
C16_GuardRejectsExactlyAbove ==
    (pc # "run" /\ AxesParse) =>
        /\ GuardRejected <=> EstimateExceeds
        /\ GuardRejected => (~h.entered /\ Renders(h.log) = << >>)

\* the X axis is an integer axis given by the one string tok
IntToken(tok) ==
    /\ args.x_opt \in {"Seed", "Var. seed", "Steps"}
    /\ args.x_vals = <<tok>>

\* a, a + s, a + 2s, ... as far as the end bound b, b included
InclusiveRange(a, b, s) ==
    LET n == IF s > 0 THEN (IF b >= a THEN (b - a) \div s + 1 ELSE 0)
             ELSE (IF a >= b THEN (a - b) \div (-s) + 1 ELSE 0)
    IN  [k \in 1..n |-> a + (k - 1) * s]

(* C17: an integer axis given by the one string "a-b(s)", s a signed step
   other than zero, is parsed to range(a, b + 1, s), and that list runs from a
   in steps of s as far as the end bound b, b included: "1-5(2)" gives
   1, 3, 5. The string "a-b" is parsed as with step 1. *)
C17_RangeInclusiveEnd ==
    \A a \in RangeEnds, b \in RangeEnds :
        /\ \A s \in ((-MaxStep)..MaxStep) \ {0} :
               (Parsed /\ IntToken(RangeStep(a, b, s))) =>
                   /\ run.xs = PyRange(a, b + 1, s)
                   /\ run.xs = InclusiveRange(a, b, s)
                   /\ (a = 1 /\ b = 5 /\ s = 2) => run.xs = <<1, 3, 5>>
        /\ (Parsed /\ IntToken(Range(a, b))) =>
               /\ run.xs = PyRange(a, b + 1, 1)
               /\ run.xs = InclusiveRange(a, b, 1)

\* the same, for steps above zero only
C17_PositiveSteps ==
    \A a \in RangeEnds, b \in RangeEnds :
        /\ \A s \in 1..MaxStep :
               (Parsed /\ IntToken(RangeStep(a, b, s))) =>
                   /\ run.xs = PyRange(a, b + 1, s)
                   /\ run.xs = InclusiveRange(a, b, s)
        /\ (Parsed /\ IntToken(Range(a, b))) =>
               /\ run.xs = PyRange(a, b + 1, 1)
               /\ run.xs = InclusiveRange(a, b, 1)

\* v is num / den cut to an integer towards zero, den above zero
IsTruncated(v, num, den) ==
    IF num >= 0
    THEN v >= 0 /\ v * den <= num /\ num < (v + 1) * den
    ELSE v <= 0 /\ v * den >= num /\ num > (v - 1) * den

\* xs is n evenly spaced values from a to b, each cut to an integer
EvenlySpaced(xs, a, b, n) ==
    /\ Len(xs) = n
    /\ xs[1] = a
    /\ n >= 2 => /\ xs[n] = b
                 /\ \A k \in 1..n :
                        IsTruncated(xs[k], a * (n - 1) + (k - 1) * (b - a), n - 1)

\* the integer axes given by "a-b[n]" are parsed to n evenly spaced values
CountedTokens ==
    \A a \in RangeEnds, b \in RangeEnds, n \in 1..MaxCount :
        (Parsed /\ IntToken(RangeCount(a, b, n))) => EvenlySpaced(run.xs, a, b, n)

(* C18 as stated: an integer axis given by the one string "a-b[n]", n >= 1,
   is parsed to n evenly spaced values from a to b, the first a and for
   n >= 2 the last b, each cut to an integer; the string "a-b" without a
   count is parsed as with count 1. *)
C18_CountDefaultsToOne ==
    /\ CountedTokens
    /\ \A a \in RangeEnds, b \in RangeEnds :
           (Parsed /\ IntToken(Range(a, b))) => EvenlySpaced(run.xs, a, b, 1)

(* C18, amended: an integer axis given by the one string "a-b[n]", n >= 1,
   is parsed to n evenly spaced values from a to b, the first a and for
   n >= 2 the last b, each cut to an integer towards zero; the string "a-b"
   without a count is not parsed by count but as the range a, a + 1, ...,
   b. *)
C18_CountedRange ==
    /\ CountedTokens
    /\ \A a \in RangeEnds, b \in RangeEnds :
           (Parsed /\ IntToken(Range(a, b))) =>
               run.xs = [k \in 1..Max(0, b - a + 1) |-> a + k - 1]

\* "-2-5[3]" is parsed to -2, 1, 5: the middle value 1.5 is cut to 1
C18_Witness ==
    /\ Parsed
    /\ IntToken(RangeCount(-2, 5, 3))
    /\ run.xs = <<-2, 1, 5>>

\* n!
RECURSIVE Factorial(_)
Factorial(n) == IF n = 0 THEN 1 ELSE n * Factorial(n - 1)

\* the values given to the permutation axis X, and the way s of ordering them
PermValues == [k \in 1..Len(args.x_vals) |-> args.x_vals[k].v]
Ordered(s) == [k \in 1..Len(PermValues) |-> PermValues[s[k]]]
Orderings == { Ordered(s) : s \in Permutations(1..Len(PermValues)) }

\* the permutation axis X is parsed
PermParsed == Parsed /\ args.x_opt = "Prompt order"

\* the parsed list has n! entries, each an ordering, and every ordering is
\* among them
AllOrderings ==
    /\ Len(run.xs) = Factorial(Len(PermValues))
    /\ { run.xs[k] : k \in 1..Len(run.xs) } = Orderings

\* no two entries of the parsed list are the same ordering
NoOrderingTwice ==
    \A j, k \in 1..Len(run.xs) : run.xs[j] = run.xs[k] => j = k

(* C19 as stated: a permutation axis of n values is parsed to the list of all
   orderings of those values: n! entries, no ordering omitted and none
   twice. *)
C19_AllOrderingsOnce ==
    PermParsed => (AllOrderings /\ NoOrderingTwice)

(* C19, amended: a permutation axis of n values is parsed to a list of n!
   entries, the orderings of the positions of the values, so that no ordering
   of the values is omitted; when the n values are pairwise distinct no
   ordering appears twice. *)
C19_AllOrderingsOnceIfDistinct ==
    PermParsed =>
        /\ AllOrderings
        /\ (\A j, k \in 1..Len(PermValues) : PermValues[j] = PermValues[k] => j = k)
               => NoOrderingTwice

\* three distinct values are parsed to their six orderings
C19_Witness ==
    /\ PermParsed
    /\ PermValues = <<1, 2, 3>>
    /\ Len(run.xs) = 6
    /\ run.xs[1] = <<1, 2, 3>>
    /\ run.xs[6] = <<3, 2, 1>>

\* no cell of the current call of draw_xyz_grid has got an image from the
\* renderer: every call of the renderer raised or was skipped
NoCellRendered == \A at \in FrameCoords : ~RenderedOk(at)

(* C20: when draw_xyz_grid returns and the renderer gave no image for any
   cell, because every call of it raised or was skipped, the returned result
   is the empty one: it has no images, no grid was composed, and no error was
   raised. *)
C20_NoImageEmptyResult ==
    (pc = "returned" /\ NoCellRendered) =>
        /\ h.ret = EmptyResult
        /\ h.ret.images = << >>
        /\ run.error = "none"

\* the renderer raised for every cell of the current call of draw_xyz_grid
EveryCellFailed ==
    /\ FrameCoords # {}
    /\ \A at \in FrameCoords : RenderFailed(at)

\* img is a grid of rows by cols cells, all of them blank placeholders
BlankGrid(img, rows, cols) ==
    /\ img.kind = "grid"
    /\ img.rows = rows
    /\ Len(img.cells) = rows * cols
    /\ \A k \in 1..Len(img.cells) : img.cells[k].kind = "blank"

(* C21: when every cell of a sweep has failed, or was skipped, draw_xyz_grid
   still composes and returns without an exception, and for each of the |Z|
   slices its result holds a grid of |Y| rows by |X| columns that is made of
   blank placeholders only. *)
C21_AllFailedGridsOfBlanks ==
    (pc = "returned" /\ FrameCoords # {} /\ NoCellRendered) =>
        /\ run.error = "none"
        /\ Len(h.ret.images) >= 1 + Len(g.zs)
        /\ \A z \in 0..(Len(g.zs) - 1) :
               BlankGrid(h.ret.images[1 + z + 1], Len(g.ys), Len(g.xs))

\* the renderer has raised for each of the six cells of a grid of two rows by
\* three columns, and draw_xyz_grid has returned
C21_Witness ==
    /\ pc = "returned"
    /\ EveryCellFailed
    /\ Len(g.xs) = 3 /\ Len(g.ys) = 2
    /\ Len(FrameRenders) = 6
    /\ BlankGrid(h.ret.images[2], 2, 3)

\* the place in FrameCells of the first cell that the renderer gave an image
\* for, or 0
FirstSuccess ==
    LET ok == { k \in 1..Len(FrameCells) : RenderedOk(FrameCells[k].at) }
    IN  IF ok = {} THEN 0 ELSE CHOOSE k \in ok : \A j \in ok : k <= j

(* C22: after the loop nest of draw_xyz_grid, a cell without an image holds a
   blank placeholder.  If a cell of the same call had been rendered with
   success before it, the blank has the mode and the size of the image of
   the first such cell; if none had, the blank has the configured width and
   height of the request. *)
C22_BlankLikeFirstSuccess ==
    LoopEnded =>
        \A k \in 1..Len(FrameCells) :
            LET at == FrameCells[k].at
                img == g.processed_result.images[Slot(at) + 1]
                first == g.processed_result.images[Slot(FrameCells[FirstSuccess].at) + 1]
            IN  ~RenderedOk(at) =>
                    /\ img.kind = "blank"
                    /\ IF FirstSuccess # 0 /\ FirstSuccess < k
                       THEN img.mode = first.mode /\ img.size = first.size
                       ELSE img.size = <<p.width, p.height>>

\* position k of the result r holds the image of a cell together with the
\* prompt, the seed and the caption of that cell
CellAligned(r, k) ==
    LET img == r.images[k]
    IN  /\ k <= Len(r.all_prompts) /\ k <= Len(r.all_seeds) /\ k <= Len(r.infotexts)
        /\ r.all_prompts[k] = [kind |-> "prompt", of |-> img.of, req |-> img.req]
        /\ r.all_seeds[k] = [kind |-> "seed", v |-> img.req.seed + img.nth]
        /\ r.infotexts[k] =
              [kind |-> "info", of |-> img.of, req |-> img.req, nth |-> img.nth]

\* every rendered image of the result r sits with the metadata of its cell
Aligned(r) ==
    \A k \in 1..Len(r.images) : r.images[k].kind = "image" => CellAligned(r, k)

(* C23: in every result with images that run returns, in each output mode,
   for every choice of include-sub-grids and include-individual-images, and
   also when cells have failed, every position that holds the image of a cell
   holds in all_prompts, all_seeds and infotexts the prompt, the seed and
   the caption of that same cell. *)
C23_MetadataAligned ==
    (run.result # None /\ run.result.images # << >>) => Aligned(run.result)

\* img is what the sweep has for the cell at <<ix, iy, iz>>: the image the
\* renderer gave for it, or a blank
ImageOfCell(img, at) ==
    IF RenderedOk(at) THEN img.kind = "image" /\ img.at = at
    ELSE img.kind = "blank"

(* C24: the image list that draw_xyz_grid returns after composing is the
   top-level grid, then the |Z| slice grids in ascending z, then the cell
   images in flat order: images[0] is the top-level grid, made of the slice
   grids in one row, images[1 + z] is the grid of slice z, and
   images[|Z| + 1 + k] is the image of the cell with the flat index k. *)
C24_ImageListLayout ==
    Composed =>
        LET imgs == h.ret.images
            nz == Len(g.zs)
        IN  /\ Len(imgs) = 1 + nz + Len(g.xs) * Len(g.ys) * nz
            /\ imgs[1].kind = "grid"
            /\ imgs[1].rows = 1
            /\ imgs[1].cells = [z \in 1..nz |-> imgs[1 + z]]
            /\ \A z \in 0..(nz - 1) :
                   /\ imgs[1 + z + 1].kind = "grid"
                   /\ imgs[1 + z + 1].rows = Len(g.ys)
                   /\ \A ix \in 0..(Len(g.xs) - 1), iy \in 0..(Len(g.ys) - 1) :
                          ImageOfCell(imgs[1 + z + 1].cells[ix + iy * Len(g.xs) + 1],
                                      <<ix, iy, z>>)
            /\ \A at \in FrameCoords :
                   ImageOfCell(imgs[nz + 1 + Slot(at) + 1], at)

\* a grid of two slices of two cells each is composed, one cell of the second
\* slice being a blank
C24_Witness ==
    /\ Composed
    /\ Len(g.xs) = 2 /\ Len(g.ys) = 1 /\ Len(g.zs) = 2
    /\ Len(h.ret.images) = 7
    /\ RenderedOk(<<0, 0, 0>>)
    /\ RenderFailed(<<1, 0, 1>>)
    /\ h.ret.images[7].kind = "blank"

\* the axis is a Seed or Var. seed axis
SeedAxis(a) == OptOf(a) \in {"Seed", "Var. seed"}

\* the place of an axis in the triple of values of a cell
AxisPlace(a) == IF a = "x" THEN 1 ELSE IF a = "y" THEN 2 ELSE 3

\* the only cell of the sweep X = Seed [-1], Y = Z = 'Nothing' has been
\* rendered and run has returned
LoneSeedRun ==
    /\ args.x_opt = "Seed" /\ args.x_vals = <<Value(-1)>>
    /\ args.y_opt = "Nothing" /\ args.z_opt = "Nothing"
    /\ ~args.no_fixed_seeds
    /\ pc = "done"

\* every -1 of a seed axis is replaced by a value of the range before the
\* sweep, the other values are kept, and no call of the renderer is made for
\* a value -1 of such an axis
MinusOnesReplaced ==
    (Parsed /\ ~args.no_fixed_seeds) =>
        \A a \in Axes :
            SeedAxis(a) =>
                /\ Len(ParsedOf(a)) = Len(RawOf(a))
                /\ \A k \in 1..Len(RawOf(a)) :
                       IF RawOf(a)[k].v = -1
                       THEN ParsedOf(a)[k] \in 0..(RandRange - 1)
                       ELSE ParsedOf(a)[k] = RawOf(a)[k].v
                /\ \A k \in 1..Len(Renders(h.log)) :
                       /\ Renders(h.log)[k].of[AxisPlace(a)] # -1
                       /\ \E j \in 1..Len(ParsedOf(a)) :
                              Renders(h.log)[k].of[AxisPlace(a)] = ParsedOf(a)[j]

\* the renderer was called once, with the value drawn as its seed
RenderedOnce ==
    /\ run.error = "none"
    /\ Len(Renders(h.log)) = 1
    /\ Renders(h.log)[1].seed = run.xs[1]
    /\ run.xs[1] # -1

\* the result holds one image, with the prompt, seed and caption of the cell
OneImageWithMetadata ==
    /\ Len(run.result.images) = 1
    /\ Len(run.result.all_prompts) = 1
    /\ Len(run.result.all_seeds) = 1
    /\ Len(run.result.infotexts) = 1
    /\ run.result.all_prompts[1].of = <<run.xs[1], 0, 0>>
    /\ run.result.all_seeds[1] = [kind |-> "seed", v |-> run.xs[1]]
    /\ run.result.infotexts[1].of = <<run.xs[1], 0, 0>>
    /\ run.result.infotexts[1].req.seed = run.xs[1]

(* C25 as stated: when 'keep -1 for seeds' is off, every -1 of a Seed or
   Var. seed axis is replaced before rendering by one value of the range of
   random.randrange, so that no cell gets -1 from that axis; the sweep
   X = Seed [-1], Y = Z = 'Nothing' calls the renderer exactly once and its
   result holds exactly one image with its prompt, seed and caption. *)
C25_LoneSeedOneImage ==
    /\ MinusOnesReplaced
    /\ LoneSeedRun => (RenderedOnce /\ OneImageWithMetadata)

(* C25, amended: the same, where the result of the sweep X = Seed [-1],
   Y = Z = 'Nothing' holds exactly one image with its prompt, seed and
   caption when include-sub-grids and include-individual-images are off, as
   the form first shows them, or when the grid is skipped. *)
C25_MinusOneSeedsReplaced ==
    /\ MinusOnesReplaced
    /\ LoneSeedRun =>
           /\ RenderedOnce
           /\ (args.skip_grid
                  \/ (~args.include_lone_images /\ ~args.include_sub_grids))
                  => OneImageWithMetadata

\* the -1 was replaced by the largest value of the range, the one cell was
\* rendered with it, and run has returned one grid
C25_Witness ==
    /\ LoneSeedRun
    /\ ~args.skip_grid /\ ~args.include_lone_images /\ ~args.include_sub_grids
    /\ run.xs = <<RandRange - 1>>
    /\ Len(Renders(h.log)) = 1
    /\ Len(run.result.images) = 1
    /\ run.result.images[1].kind = "grid"

(* C26: while draw_xyz_grid composes, the grid of every slice z built so far
   has |Y| rows and is made of exactly the |X|*|Y| entries of the cells with
   iz = z, in flat order: cell number ix + iy*|X| of the grid is the image or
   the blank of cell (ix, iy, z).  No slice grid holds a grid or a cell of
   another slice, however many grids were inserted before it. *)
C26_SliceGridFromItsCells ==
    pc = "compose" =>
        LET imgs == g.processed_result.images
            nx == Len(g.xs)
            ny == Len(g.ys)
        IN  \A z \in 0..(g.i - 1) :
                /\ imgs[z + 1].kind = "grid"
                /\ imgs[z + 1].rows = ny
                /\ imgs[z + 1].cells =
                       [k \in 1..(nx * ny) |-> imgs[g.i + z * nx * ny + k]]
                /\ \A ix \in 0..(nx - 1), iy \in 0..(ny - 1) :
                       LET c == imgs[z + 1].cells[ix + iy * nx + 1]
                       IN  /\ c.kind # "grid"
                           /\ ImageOfCell(c, <<ix, iy, z>>)

\* the grid of the second slice of a 2x2x2 sweep has been built, behind the
\* grid of the first slice
C26_Witness ==
    /\ pc = "compose"
    /\ g.i = 2
    /\ Len(g.xs) = 2 /\ Len(g.ys) = 2 /\ Len(g.zs) = 2
    /\ g.processed_result.images[2].kind = "grid"
    /\ g.processed_result.images[2].cells[4].kind = "image"
    /\ g.processed_result.images[2].cells[4].at = <<1, 1, 1>>

\* position k of the lists of the result r holds the prompt, the seed and the
\* caption that the renderer returned for the cell at <<ix, iy, iz>>
HoldsMetadataOf(r, k, at) ==
    LET img == r.images[Len(g.zs) + 1 + Slot(at) + 1]
    IN  /\ k <= Len(r.all_prompts) /\ k <= Len(r.all_seeds) /\ k <= Len(r.infotexts)
        /\ r.all_prompts[k] = [kind |-> "prompt", of |-> img.of, req |-> img.req]
        /\ r.all_seeds[k] = [kind |-> "seed", v |-> img.req.seed + img.nth]
        /\ r.infotexts[k] =
              [kind |-> "info", of |-> img.of, req |-> img.req, nth |-> img.nth]

(* C27: in the result that draw_xyz_grid returns after composing, the prompt,
   seed and caption lists hold, at the position of the grid of slice z in the
   image list, the prompt, seed and caption of cell (0, 0, z), and at the
   position of the top-level grid those of cell (0, 0, 0), for the cells that
   were rendered. *)
C27_GridMetadataOfFirstCell ==
    Composed =>
        /\ RenderedOk(<<0, 0, 0>>) => HoldsMetadataOf(h.ret, 1, <<0, 0, 0>>)
        /\ \A z \in 0..(Len(g.zs) - 1) :
               RenderedOk(<<0, 0, z>>) => HoldsMetadataOf(h.ret, 1 + z + 1, <<0, 0, z>>)

\* the indices of the n-th cell, n from 0, of the nest the planner chose over
\* axes of nx, ny and nz values
PlannedCell(n, nx, ny, nz) ==
    LET c == NthCell(LoopNest(run.first_axes_processed, run.second_axes_processed),
                     [x |-> nx, y |-> ny, z |-> nz], n)
    IN  <<c.x, c.y, c.z>>

\* the seed of a request to which the values of the cell vals were applied in
\* the order X, Y, Z
AppliedSeed(vals) ==
    IF args.z_opt = "Seed" THEN vals[3]
    ELSE IF args.y_opt = "Seed" THEN vals[2]
    ELSE IF args.x_opt = "Seed" THEN vals[1]
    ELSE p.seed

\* in every call of the renderer the request has the seed that the
\* apply-functions leave when they run in the order X, Y, Z
AppliedInOrder ==
    \A k \in 1..Len(Renders(h.log)) :
        Renders(h.log)[k].applied = AppliedSeed(Renders(h.log)[k].of)

(* C28: in the grid, the chunked and the skip-grid mode the cells are visited
   in the order of the loop nest that the planner chose from the costs of the
   axes, and in every cell the apply-functions of X, Y and Z have run in this
   order when the renderer is called. *)
C28_PlannerOrderInEveryMode ==
    /\ run.mode \in {"grid", "chunked"} =>
           \A k \in 1..Len(FrameCells) :
               FrameCells[k].at = PlannedCell(k - 1, Len(g.xs), Len(g.ys), Len(g.zs))
    /\ (run.mode = "skip" /\ ~h.observed) =>
           \A k \in 1..Len(h.cells) :
               h.cells[k].at = PlannedCell(k - 1, Len(run.xs), Len(run.ys), Len(run.zs))
    /\ AppliedInOrder

\* the same for the grid and the chunked mode only
C28_PlannerOrderInGrids ==
    /\ run.mode \in {"grid", "chunked"} =>
           \A k \in 1..Len(FrameCells) :
               FrameCells[k].at = PlannedCell(k - 1, Len(g.xs), Len(g.ys), Len(g.zs))
    /\ AppliedInOrder

\* the entries of the result of run that stand for a cell: an image of the
\* renderer or a blank
CellEntries ==
    { k \in 1..Len(run.result.images) :
        run.result.images[k].kind \in {"image", "blank"} }

\* run has returned the result of a sweep during which it saw an interruption
\* flag set
InterruptedResult ==
    /\ h.observed
    /\ run.error = "none"
    /\ run.result # None

(* C29: when a sweep in skip-grid mode or in chunked mode was interrupted,
   the result of run still has one image entry for every cell of the sweep:
   the image of the cell if it was rendered, and a blank placeholder if it
   was not. *)
C29_InterruptedKeepsEverySlot ==
    (InterruptedResult /\ run.mode \in {"skip", "chunked"}) =>
        /\ Cardinality(CellEntries) = Len(run.xs) * Len(run.ys) * Len(run.zs)
        /\ Cardinality({ k \in CellEntries : run.result.images[k].kind = "image" })
               = Len(Renders(h.log))

\* the slice grids and the cell entries among the images imgs
SliceGrids(imgs) ==
    { k \in 1..Len(imgs) :
        /\ imgs[k].kind = "grid"
        /\ \A j \in 1..Len(imgs[k].cells) : imgs[k].cells[j].kind # "grid" }
CellImages(imgs) ==
    { k \in 1..Len(imgs) : imgs[k].kind \in {"image", "blank"} }

\* imgs is a top-level grid, then nz slice grids if sub, then n cell entries
\* if lone
KeptAsChosen(imgs, nz, n, sub, lone) ==
    /\ Len(imgs) >= 1
    /\ imgs[1].kind = "grid"
    /\ imgs[1].rows = 1
    /\ \A j \in 1..Len(imgs[1].cells) : imgs[1].cells[j].kind = "grid"
    /\ SliceGrids(imgs) = IF sub THEN 2..(nz + 1) ELSE {}
    /\ CellImages(imgs) =
           IF lone THEN (Len(imgs) - n + 1)..Len(imgs) ELSE {}
    /\ Len(imgs) = 1 + (IF sub THEN nz ELSE 0) + (IF lone THEN n ELSE 0)

\* the number of Z values and of cells of the chunk k, from 1
ChunkZ(k) == IF run.main_axis = "z" THEN Len(run.chunks[k]) ELSE Len(run.zs)
ChunkN(k) ==
    Len(run.chunks[k])
        * (IF run.main_axis = "x" THEN Len(run.ys) * Len(run.zs)
           ELSE IF run.main_axis = "y" THEN Len(run.xs) * Len(run.zs)
           ELSE Len(run.xs) * Len(run.ys))

(* C30: the images that run keeps of a grid sweep are the top-level grid
   first, then the |Z| slice grids if and only if include-sub-grids is on,
   then the images of the cells if and only if include-individual-images is
   on.  This holds for the result of the unchunked sweep and, in a chunked
   sweep, for what run keeps of each chunk. *)
C30_KeptImagesAsChosen ==
    /\ (run.mode = "grid" /\ run.result # None /\ run.result.images # << >>) =>
           KeptAsChosen(run.result.images, Len(run.zs),
                        Len(run.xs) * Len(run.ys) * Len(run.zs),
                        args.include_sub_grids, args.include_lone_images)
    /\ run.mode = "chunked" =>
           \A k \in 1..Len(h.chunk_out) :
               KeptAsChosen(h.chunk_out[k].images, ChunkZ(k), ChunkN(k),
                            args.include_sub_grids, args.include_lone_images)

\* the same for the unchunked sweep only
C30_KeptImagesUnchunked ==
    (run.mode = "grid" /\ run.result # None /\ run.result.images # << >>) =>
        KeptAsChosen(run.result.images, Len(run.zs),
                     Len(run.xs) * Len(run.ys) * Len(run.zs),
                     args.include_sub_grids, args.include_lone_images)

\* lines 1628-1745 applied to a result of draw_xyz_grid: what the unchunked
\* pipeline returns for it
UnchunkedResult(processed) ==
    LET z_count == Len(run.zs)
        infos == Slice(run.grid_infotext, 0, 1 + z_count)
                     \o SliceFrom(processed.infotexts, 1 + z_count)
        lone == run.include_lone_images
        sub == run.include_sub_grids
    IN  IF processed.images = << >> THEN processed
        ELSE [processed EXCEPT
                !.images = Trim(@, z_count, lone, sub),
                !.infotexts = Trim(infos, z_count, lone, sub),
                !.all_prompts = Trim(@, z_count, lone, sub),
                !.all_seeds = Trim(@, z_count, lone, sub)]

\* the chunk size is positive, skip-grid is off and the dominant axis has
\* more values than the chunk size
AboveChunkSize ==
    /\ args.items_per_grid > 0
    /\ ~args.skip_grid
    /\ Len(MainValues) > args.items_per_grid

(* C31: the chunked pipeline is used only when the chunk size is positive,
   skip-grid is off and the dominant axis has more values than the chunk size;
   when the dominant axis has at most chunk-size values and skip-grid is off,
   a run that returns returns what the unchunked pipeline makes of the grid of
   the whole sweep. *)
C31_ChunkedOnlyAboveChunkSize ==
    /\ run.mode = "chunked" => AboveChunkSize
    /\ (/\ pc = "done" /\ run.error = "none" /\ h.entered
        /\ ~args.skip_grid /\ ~AboveChunkSize)
          => run.result = UnchunkedResult(h.ret)

\* the X axis is a float axis whose values are the one string tok
FloatToken(tok) ==
    /\ args.x_opt = "CFG Scale"
    /\ args.x_vals = <<tok>>

\* the step of a range of the float axis: the one written, or 1
FloatStep(tok) == IF tok.has_step THEN tok.step ELSE FloatOne

\* xs is start, start + step, start + 2 step, ...
Arithmetic(xs, start, step) ==
    \A k \in 1..Len(xs) : xs[k] = start + (k - 1) * step

\* a range start-end(step) of the float axis with a positive step has been
\* expanded into the values of the X axis
FloatRangeExpanded(tok) ==
    /\ h.entered
    /\ FloatToken(tok)
    /\ ReRangeFloat(tok)
    /\ FloatStep(tok) > 0

(* C32: on a float axis, a range start-end(step) with a positive step expands
   to the arithmetic sequence start, start + step, ... that has no value
   greater than end, and that has end among its values when end is not below
   start and end - start is a multiple of step. *)
C32_FloatRangeWithinEnd ==
    \A tok \in FloatRangeTokens :
        FloatRangeExpanded(tok) =>
            /\ Arithmetic(run.xs, tok.a, FloatStep(tok))
            /\ \A k \in 1..Len(run.xs) : run.xs[k] <= tok.b
            /\ (tok.b >= tok.a /\ (tok.b - tok.a) % FloatStep(tok) = 0) =>
                   \E k \in 1..Len(run.xs) : run.xs[k] = tok.b

(* C32, the parts that hold: the expansion is an arithmetic sequence from
   start that has every value start + k step up to end, end among them when
   end - start is a multiple of step, and no value from end + step on. *)
C32_FloatRangeBelowEndPlusStep ==
    \A tok \in FloatRangeTokens :
        FloatRangeExpanded(tok) =>
            /\ Arithmetic(run.xs, tok.a, FloatStep(tok))
            /\ \A k \in 1..Len(run.xs) : run.xs[k] < tok.b + FloatStep(tok)
            /\ (tok.b >= tok.a /\ (tok.b - tok.a) % FloatStep(tok) = 0) =>
                   /\ run.xs = InclusiveRange(tok.a, tok.b, FloatStep(tok))
                   /\ run.xs[Len(run.xs)] = tok.b

\* the positions of the list imgs that hold an image of the renderer, and
\* those that hold a grid
RenderedAt(imgs) == { k \in 1..Len(imgs) : imgs[k].kind = "image" }
GridsAt(imgs) == { k \in 1..Len(imgs) : imgs[k].kind = "grid" }

\* the result r, made from calls cell calls of cell, has of every cell at
\* most one image, the first of its batch, and at most one prompt, one seed
\* and one caption beside those of its grids
OnePerCell(r, calls) ==
    /\ \A k \in RenderedAt(r.images) : r.images[k].nth = 0
    /\ \A j, k \in RenderedAt(r.images) :
          j # k => r.images[j].at # r.images[k].at
    /\ Len(r.images) <= Cardinality(GridsAt(r.images)) + calls
    /\ Len(r.all_prompts) <= Cardinality(GridsAt(r.images)) + calls
    /\ Len(r.all_seeds) <= Cardinality(GridsAt(r.images)) + calls
    /\ Len(r.infotexts) <= Cardinality(GridsAt(r.images)) + calls

\* the calls of cell made for the chunk k (from 0)
CallsInChunk(k) ==
    LET There(c) == c.chunk = k IN Len(SelectSeq(h.cells, There))

(* C33: every cell contributes at most one image, the first of the batch the
   renderer returned for it, and at most one prompt, seed and caption to the
   result, however many images the renderer returned: in the result of the
   grid mode, in what is kept of every chunk, and in the result of the
   skip-grid mode. *)
C33_OneImagePerCell ==
    /\ (run.result # None /\ run.mode \in {"grid", "skip"})
          => OnePerCell(run.result, Len(h.cells))
    /\ \A k \in 1..Len(h.chunk_out) : OnePerCell(h.chunk_out[k], CallsInChunk(k - 1))

(* C33 in the grid and the chunked mode: the result of the unchunked grid and
   what is kept of every chunk hold at most one image, prompt, seed and caption
   of every cell, the image being the first of the batch. *)
C33_OneImagePerCellInGrids ==
    /\ (run.result # None /\ run.mode = "grid")
          => OnePerCell(run.result, Len(h.cells))
    /\ \A k \in 1..Len(h.chunk_out) : OnePerCell(h.chunk_out[k], CallsInChunk(k - 1))

\* the run has ended by the exception of an axis value that cannot be
\* resolved: raised while the axes are parsed and validated, or by an
\* apply-function while a cell is prepared
UnresolvedValue == run.error \in {"ValueError", "NumpyError", "RuntimeError"}

(* C34: an axis value that cannot be resolved makes the sweep fail before any
   cell is rendered, also when only the apply-function detects it, as for a
   Prompt S/R search term that is absent from the prompt of the cell being
   prepared: no call of the renderer precedes such an error. *)
C34_UnresolvedValueBeforeRender ==
    UnresolvedValue => Renders(h.log) = << >>

(* C34 for the errors of process_axis: a value that the parsing, the coercion
   or the validator of an axis rejects ends the run before the sweep is
   entered and before any call of the renderer. *)
C34_RejectedValueBeforeRender ==
    (UnresolvedValue /\ ~h.entered) => Renders(h.log) = << >>

\* the calls of create_infotext made for the grid k: 0 is the top-level grid,
\* 1 + iz the grid of the slice iz
InfotextCalls(k) ==
    LET For(e) == e.grid = k IN SelectSeq(h.infotexts, For)

\* an unchunked grid sweep that called the renderer for every cell, was not
\* interrupted and has returned its grids
CompleteGridSweep ==
    /\ run.mode = "grid"
    /\ run.result # None
    /\ run.result.images # << >>
    /\ ~h.observed
    /\ Len(Renders(h.log)) = Len(run.xs) * Len(run.ys) * Len(run.zs)

(* C35: during one sweep create_infotext is called at most once for the
   top-level grid and at most once for the grid of every Z slice, never once
   per cell; in a complete, uninterrupted, unchunked grid sweep it is called
   exactly |Z| + 1 times, and the captions of the grid entries of the result
   (the top-level grid, and the slice grids when they are kept) are the
   captions those calls composed. *)
C35_InfotextOncePerGrid ==
    /\ \A k \in 0..Len(run.zs) : Len(InfotextCalls(k)) <= 1
    /\ \A j \in 1..Len(h.infotexts) : h.infotexts[j].grid \in 0..Len(run.zs)
    /\ CompleteGridSweep =>
          /\ Len(h.infotexts) = Len(run.zs) + 1
          /\ run.result.infotexts[1] = InfotextCalls(0)[1]
          /\ run.include_sub_grids =>
                \A i \in 1..Len(run.zs) :
                    run.result.infotexts[1 + i] = InfotextCalls(i)[1]

\* a complete sweep of 2 x 2 x 2 cells has returned its three grids
C35_Witness ==
    /\ CompleteGridSweep
    /\ Len(run.xs) = 2 /\ Len(run.ys) = 2 /\ Len(run.zs) = 2
    /\ run.include_sub_grids
    /\ Len(h.infotexts) = 3
    /\ Len(run.result.infotexts) >= 3

\* the calls of cell in which an apply-function raised
ApplyErrors == { k \in 1..Len(h.cells) : h.cells[k].apply_error }

(* C36: an exception that an apply-function raises while a cell is prepared
   is not tolerated like a failure of the renderer: it leaves run, the cell is
   the last one attempted, the renderer is not called for it, run returns no
   result, and the restore of the model and VAE weights runs exactly once, as
   the last calls of the run. *)
C36_ApplyErrorLeavesRun ==
    \A k \in ApplyErrors :
        /\ k = Len(h.cells)
        /\ ~h.cells[k].rendered
        /\ pc \in {"exit", "done"}
        /\ run.error = "RuntimeError"
        /\ run.result = None
        /\ pc = "exit" => Restores(h.log) = << >>
        /\ pc = "done" =>
              /\ Restores(h.log) = TheRestore
              /\ SliceFrom(h.log, Len(h.log) - 2) = TheRestore

\* a run has ended by the error of an apply-function at its third cell, after
\* a cell whose render had failed and one that was rendered
C36_Witness ==
    /\ pc = "done"
    /\ Len(h.cells) = 3
    /\ 3 \in ApplyErrors
    /\ h.failures = 1
    /\ Len(Renders(h.log)) = 2
    /\ Restores(h.log) = TheRestore

\* the seed variation is enabled for the axis at place k of <<x, y, z>>
Varied(k) ==
    IF k = 1 THEN args.vary_seeds_x
    ELSE IF k = 2 THEN args.vary_seeds_y ELSE args.vary_seeds_z

\* the calls d and e of the renderer were made for two cells of the sweep
\* that differ along the axis at place k and agree on the other two
DifferAlong(d, e, k) ==
    /\ GlobalAt(d)[k] # GlobalAt(e)[k]
    /\ \A j \in {1, 2, 3} \ {k} : GlobalAt(d)[j] = GlobalAt(e)[j]

\* what the seed variation added to the seed of a call of the renderer
OffsetOf(e) == e.seed - e.applied

\* any two cells rendered so far that differ along a varied axis only have
\* different seed offsets
VariedOffsetsDiffer ==
    \A i, j \in 1..Len(h.log) :
        \A k \in {1, 2, 3} :
            (/\ h.log[i].op = "process_images" /\ h.log[j].op = "process_images"
             /\ Varied(k)
             /\ DifferAlong(h.log[i], h.log[j], k))
                => OffsetOf(h.log[i]) # OffsetOf(h.log[j])

(* C37: whenever the seed variation is enabled for an axis, any two cells of
   one sweep that differ in their position along that axis and agree on the
   other two axes are rendered with different seed offsets, in the chunked
   mode too when the two cells are in different chunks of the dominant
   axis. *)
C37_VariedCellsDifferentOffsets == VariedOffsetsDiffer

(* C37 outside the chunked mode: in the unchunked grid and in the skip-grid
   mode two cells that differ along a varied axis only have different seed
   offsets. *)
C37_VariedCellsDifferentOffsetsUnchunked ==
    run.mode # "chunked" => VariedOffsetsDiffer

(* ---------------- termination ---------------- *)

\* the statements of run and of the functions it calls
Step ==
    \/ Setup
    \/ ProcessCell
    \/ CheckResult
    \/ ComposeSlice
    \/ ComposeTop
    \/ PostGrid
    \/ ChunkPost
    \/ SkipCell
    \/ SkipReturn
    \/ ExitScope

\* run goes on while a statement of it can be executed: every call of the
\* renderer returns or raises, and nothing else in run waits
FairSpec == Spec /\ WF_vars(Step)

\* the calls of cell are no more than the cells of the product
CellsWithinProduct ==
    Len(h.cells) <= Len(run.xs) * Len(run.ys) * Len(run.zs)

(* C38, as stated: every run ends, cell having been called at most
   |X| * |Y| * |Z| times in all, and when it has ended, by return or by an
   exception, the restore of the model and VAE weights has run. *)
C38_EndsRestored ==
    /\ CellsWithinProduct
    /\ pc = "done" => Restores(h.log) = TheRestore

\* the statements of run other than the turn of the loop nest
OtherStep ==
    \/ Setup
    \/ CheckResult
    \/ ComposeSlice
    \/ ComposeTop
    \/ PostGrid
    \/ ChunkPost
    \/ SkipCell
    \/ SkipReturn
    \/ ExitScope

\* a run that has not ended can execute a statement: ProcessCell is enabled,
\* its call of cell being evaluated in the state, or another statement is
CanStep ==
    \/ pc = "done"
    \/ /\ pc = "cells"
       /\ g.n < ListSize
       /\ \E raises \in BOOLEAN :
            \E c \in {NextCell} :
                \E r \in {NextResult(raises)} : ENABLED ProcessResult(r, c, raises)
    \/ ENABLED OtherStep

\* an upper bound of the statements one call of draw_xyz_grid executes, the
\* step of run after it included
FrameBound == Len(run.xs) * Len(run.ys) * Len(run.zs) + Len(run.zs) + 5

\* the chunks that are still to be started
ChunksLeft ==
    IF run.mode = "chunked" THEN Len(run.chunks) - 1 - run.chunk_idx ELSE 0

\* an upper bound of the statements of run that are still to be executed
\* once the sweep is entered
StepsLeft ==
    CASE pc = "done" -> 0
      [] pc = "exit" -> 1
      [] pc = "skip" -> 2 + Len(run.xs) * Len(run.ys) * Len(run.zs) - run.n
      [] pc = "returned" -> 2 + ChunksLeft * FrameBound
      [] pc = "compose" -> 3 + (Len(g.zs) - g.i) + ChunksLeft * FrameBound
      [] pc = "cells" -> 4 + Len(g.zs) + (ListSize - g.n) + ChunksLeft * FrameBound
      [] OTHER -> 0

(* C38, amended: every run ends, by return or by an exception: until it has
   ended a statement of it can always be executed, the statements after the
   setup each bring a bound of the remaining ones down, and the bound is never
   negative; cell is called at most |X| * |Y| * |Z| times in all, in the grid,
   the chunked and the skip-grid mode; and when a run that entered the with
   block has ended, the restore of the model and VAE weights has run, once.
   A run that ends before the block, by an error of the axes or of the size
   guard, calls no cell and no restore. *)
C38_EndsWithinProduct ==
    /\ []CellsWithinProduct
    /\ [](pc = "done" =>
            IF h.entered THEN Restores(h.log) = TheRestore
            ELSE Restores(h.log) = << >> /\ h.cells = << >>)
    /\ []CanStep
    /\ [](StepsLeft >= 0)
    /\ [][Step => (pc = "run" /\ pc' # "run") \/ StepsLeft' < StepsLeft]_vars
    /\ [][pc' = "run" => pc = "run"]_vars

\* a chunked run of two chunks has ended after a call of cell for every cell
\* of a product of four, and the restore has run
C38_Witness ==
    /\ pc = "done"
    /\ run.mode = "chunked" /\ Len(run.chunks) = 2
    /\ Len(run.xs) * Len(run.ys) * Len(run.zs) = 4
    /\ Len(h.cells) = 4
    /\ Restores(h.log) = TheRestore

====
